---- MODULE Spec2Model ----
(***************************************************************************)
(* A model of proxmox-backup-gui.py: the profile store, the mount slot,    *)
(* the shutdown path, the backup worker thread with its child process and  *)
(* signal queue, and the restore loop with its progress dialog.            *)
(*                                                                         *)
(* Strings the program only passes along are TLA+ strings.  Strings it     *)
(* takes apart are sequences: a file name is the sequence of its           *)
(* dot-separated components, an output line the sequence of its            *)
(* characters.                                                             *)
(***************************************************************************)
EXTENDS Integers, Sequences, FiniteSets, TLC

None == "None"

(***************************************************************************)
(* Bounds of the model.                                                    *)
(***************************************************************************)
MaxSources == 2
MaxLines == 2
MaxErr == 2
PipeCap == 1
MaxRuns == 2
MaxRestoreLines == 1

Mode600 == 384

VARIABLES
    profiles,               \* self.profiles: insertion-ordered dict, as a sequence
    current_profile_name,   \* self.current_profile_name
    profile_combo,          \* self.profile_combo.currentText()
    repo_edit,              \* self.repo_edit.text()
    api_edit,               \* self.api_edit.text()
    fingerprint_edit,       \* self.fingerprint_edit.text()
    config_file,            \* ~/.config/proxmox-backup-gui/config.yaml
    archives_table,         \* column 0 of self.archives_table, row by row
    selected_row,           \* the selected row of the table (from 1), 0 for none
    archive_data,           \* self.archive_data
    current_mount,          \* self.current_mount
    liveMounts,             \* mount points the client has established
    gui,                    \* where the GUI thread is
    closing,                \* closeEvent is on the GUI thread's stack
    lastOp,                 \* the handler that ran last
    spawned,                \* the processes that handler started, in order
    dialogs,                \* the message boxes that handler showed, in order
    workers,                \* BackupWorker threads, by run number
    children,               \* the backup client child of each run
    eventQueue,             \* queued signal deliveries to the GUI thread
    delivered,              \* per run: what update_progress received, in order
    terminal,               \* per run: what backup_finished received, in order
    progress_label,         \* self.progress_label.text()
    restore                 \* the restore child, the Cancel click, the outcome

storeVars == <<profiles, current_profile_name, profile_combo, repo_edit,
               api_edit, fingerprint_edit, config_file>>
tableVars == <<archives_table, selected_row, archive_data>>
mountVars == <<current_mount, liveMounts>>
guiVars == <<gui, closing>>
obsVars == <<lastOp, spawned, dialogs>>
backupVars == <<workers, children, eventQueue, delivered, terminal,
                progress_label>>
restoreVars == <<restore>>
vars == <<storeVars, tableVars, mountVars, guiVars, obsVars, backupVars, restoreVars>>

(***************************************************************************)
(* Sequence helpers.                                                       *)
(***************************************************************************)
Range(s) == {s[i] : i \in 1..Len(s)}

MapSeq(s, F(_)) == [i \in 1..Len(s) |-> F(s[i])]

RemoveAt(s, i) == SubSeq(s, 1, i - 1) \o SubSeq(s, i + 1, Len(s))

(***************************************************************************)
(* BackupSource, BackupProfile and the profile store.                      *)
(***************************************************************************)
BackupSource(path, archive_type) ==
    [path |-> path, archive_type |-> archive_type, exclusions |-> <<>>]

BackupProfile(name) ==
    [name |-> name, repository |-> "", api_key |-> "", fingerprint |-> "",
     backup_sources |-> <<>>, last_backup |-> None]

ProfileNames == {profiles[i].name : i \in 1..Len(profiles)}

IndexOf(name) == CHOOSE i \in 1..Len(profiles) : profiles[i].name = name

Profile(name) == profiles[IndexOf(name)]

SourceToDict(s) ==
    [path |-> s.path, archive_type |-> s.archive_type,
     exclusions |-> s.exclusions]

ProfileToDict(p) ==
    [name |-> p.name, repository |-> p.repository, api_key |-> p.api_key,
     fingerprint |-> p.fingerprint,
     backup_sources |-> MapSeq(p.backup_sources, SourceToDict)]

EmptyConfig == [empty |-> TRUE, repository |-> "", api_key |-> "",
                fingerprint |-> "", backup_sources |-> <<>>]

\* get_current_config, read from a given store
ConfigOf(ps, cur) ==
    IF cur = None THEN EmptyConfig
    ELSE LET p == ps[CHOOSE i \in 1..Len(ps) : ps[i].name = cur] IN
         [empty |-> FALSE, repository |-> p.repository,
          api_key |-> p.api_key, fingerprint |-> p.fingerprint,
          backup_sources |-> p.backup_sources]

get_current_config == ConfigOf(profiles, current_profile_name)

validate_config ==
    /\ current_profile_name # None
    /\ Profile(current_profile_name).backup_sources # <<>>
    /\ Profile(current_profile_name).repository # ""
    /\ Profile(current_profile_name).api_key # ""

\* the warning validate_config shows when it fails
ValidationMessage ==
    IF current_profile_name = None THEN "No profile selected"
    ELSE IF Profile(current_profile_name).backup_sources = <<>>
         THEN "Please add at least one backup source"
    ELSE IF Profile(current_profile_name).repository = ""
         THEN "Please configure repository in settings"
    ELSE "Please configure API key in settings"

Warning(text) == [level |-> "warning", text |-> text]
Information(text) == [level |-> "information", text |-> text]

(***************************************************************************)
(* save_settings: the current profile takes the three settings fields,     *)
(* then the whole store is written.  io is what the file system does:      *)
(* "ok", or "fail" for an open() that raises.                              *)
(***************************************************************************)
ProfilesAfterSave(ps, cur) ==
    IF cur = None THEN ps
    ELSE [i \in 1..Len(ps) |->
            IF ps[i].name = cur
            THEN [ps[i] EXCEPT !.repository = repo_edit,
                               !.api_key = api_edit,
                               !.fingerprint = fingerprint_edit]
            ELSE ps[i]]

\* config_data, lines 612-614
ConfigData(ps) == [profiles |-> MapSeq(ps, ProfileToDict)]

\* the file: whether it exists, its permission bits, whether its text is
\* YAML, and what yaml.safe_load(f) or {} gives for it
WrittenFile(mode, data) ==
    [exists |-> TRUE, mode |-> mode, parses |-> TRUE, data |-> data]

NoFile == [exists |-> FALSE, mode |-> 0, parses |-> TRUE, data |-> <<>>]

FileAfterSave(ps, io) ==
    IF io = "ok"
    THEN WrittenFile(Mode600, ConfigData(ps))
    ELSE IF config_file.exists
         THEN [config_file EXCEPT !.mode = Mode600]
         ELSE config_file

SaveDialogs(io) ==
    IF io = "ok" THEN <<>> ELSE <<Warning("Failed to save settings")>>

IOResults == {"ok", "fail"}

(***************************************************************************)
(* External processes.  A subprocess call (subprocess.run, Popen) is a     *)
(* record: argv, the overlay env puts on os.environ, and how the call      *)
(* ended: the binary could not be launched, or it exited with a code.      *)
(***************************************************************************)
LaunchError == [kind |-> "launch_error", returncode |-> -1]
Exit(code) == [kind |-> "exit", returncode |-> code]
Running == [kind |-> "running", returncode |-> -1]
RunResults == {LaunchError, Exit(0), Exit(1)}

\* a subprocess call: what is run, and how the call ended
Proc(argv, env) == [argv |-> argv, env |-> env, result |-> Running]
Ended(proc, result) == [proc EXCEPT !.result = result]

Dirs == {"/mnt/a", "/mnt/b"}
DirChoices == Dirs \cup {""}
SnapshotNew == "host/pc/2024-01-02T00:00:00Z"
SnapshotOld == "host/pc/2024-01-01T00:00:00Z"

\* records of "snapshot list --output-format json"; backup-time is in days
\* of January 2024, and a record may come without it
TimeNew == 2
TimeOld == 1
ArchiveNew ==
    ("backup-type" :> "host") @@ ("backup-id" :> "pc")
    @@ ("backup-time" :> TimeNew)
ArchiveOld ==
    ("backup-type" :> "host") @@ ("backup-id" :> "pc")
    @@ ("backup-time" :> TimeOld)
ArchiveNoTime == ("backup-type" :> "host") @@ ("backup-id" :> "pc")

\* archives_table.selectedItems(): the snapshot path of the selected row
SelectedBackupId ==
    IF selected_row = 0 THEN None ELSE archives_table[selected_row]

\* the user selects a row of the archives table, or clears the selection
SelectRow ==
    /\ gui = "idle"
    /\ \E r \in 0..Len(archives_table) :
        /\ r # selected_row
        /\ selected_row' = r
    /\ UNCHANGED <<storeVars, archives_table, archive_data, mountVars, guiVars, obsVars,
                   backupVars, restoreVars>>

\* file names of a snapshot, as dot-separated components
FileRootPxar == <<"root", "pxar", "didx">>
FileHomePxar == <<"home", "pxar", "didx">>
FileDiskImg == <<"disk", "img", "fidx">>
FileIndex == <<"index", "json", "blob">>
FilePxarBare == <<"pxar", "didx">>

Entry(fn) == [has_filename |-> TRUE, filename |-> fn]
EntryNoName == [has_filename |-> FALSE, filename |-> <<>>]

Json(data) == [json |-> TRUE, data |-> data]
NotJson == [json |-> FALSE, data |-> <<>>]

FilesOutputs ==
    { NotJson,
      Json(<<>>),
      Json(<<Entry(FileIndex), Entry(FileDiskImg), Entry(FilePxarBare)>>),
      Json(<<Entry(FileIndex), Entry(FileRootPxar)>>),
      Json(<<Entry(FileHomePxar), Entry(FileDiskImg), Entry(FileRootPxar)>>),
      Json(<<Entry(FileRootPxar), EntryNoName>>) }

FilesRuns ==
    {[run |-> LaunchError, stdout |-> NotJson],
     [run |-> Exit(1), stdout |-> NotJson]}
    \cup {[run |-> Exit(0), stdout |-> o] : o \in FilesOutputs}

\* str.endswith(".pxar.didx")
EndsWithPxarDidx(fn) ==
    /\ Len(fn) >= 3
    /\ fn[Len(fn) - 1] = "pxar"
    /\ fn[Len(fn)] = "didx"

\* str.removesuffix(".didx")
RemoveSuffixDidx(fn) ==
    IF Len(fn) >= 2 /\ fn[Len(fn)] = "didx"
    THEN SubSeq(fn, 1, Len(fn) - 1)
    ELSE fn

\* file["filename"] raises KeyError on a record without the key
RaisesKeyError(data) == \E i \in 1..Len(data) : ~data[i].has_filename

\* every name ending in ".didx" taken for an archive file
IsPxarEntry_AnyDidx(e) == e.filename[Len(e.filename)] = "didx"

IsPxarEntry(e) == EndsWithPxarDidx(e.filename)
StripEntry(e) == RemoveSuffixDidx(e.filename)

PxarFiles(data) == MapSeq(SelectSeq(data, IsPxarEntry), StripEntry)

\* what QInputDialog.getItem can return for a listing; without a dialog the
\* answer is not consulted
NoChoice == [ok |-> TRUE, item |-> <<>>]

ChoicesFor(files) ==
    IF /\ files.run = Exit(0)
       /\ files.stdout.json
       /\ ~RaisesKeyError(files.stdout.data)
       /\ Len(PxarFiles(files.stdout.data)) > 1
    THEN {[ok |-> FALSE, item |-> <<>>]}
         \cup {[ok |-> TRUE, item |-> f] :
                 f \in Range(PxarFiles(files.stdout.data))}
    ELSE {NoChoice}

PasswordEnv(config) == {<<"PBS_PASSWORD", config.api_key>>}

SnapshotFilesCmd(backup_id, config) ==
    Proc(<<"proxmox-backup-client", "snapshot", "files", backup_id,
           "--repository", config.repository, "--output-format", "json">>,
         PasswordEnv(config))

MountCmd(backup_id, file, mount_path, config) ==
    Proc(<<"proxmox-backup-client", "mount", backup_id, file, mount_path,
           "--repository", config.repository>>,
         PasswordEnv(config))

UnmountCmd(mount_path) == Proc(<<"fusermount", "-u", mount_path>>, {})

(***************************************************************************)
(* mount_archive.  The handler runs to completion on the GUI thread; its   *)
(* inputs are the selected row, the directory chosen, how the              *)
(* snapshot-files call ended, the answer to the file choice and how the    *)
(* mount call ended.  The result is the new mount slot, the mounts the     *)
(* client holds, the subprocess calls made and the boxes shown.            *)
(***************************************************************************)
AlreadyMounted_Never == FALSE

\* if self.current_mount:
AlreadyMounted == current_mount # None

MountSucceeded_Always(m) == TRUE

\* if process.returncode == 0:
MountSucceeded(m) == m.kind = "exit" /\ m.returncode = 0

MountOut(cm, live, calls, boxes) ==
    [current_mount |-> cm, liveMounts |-> live, spawned |-> calls,
     dialogs |-> boxes]

\* the client establishes the mount exactly when it exits with code 0
LiveAfterMount(dir, m) ==
    IF m = Exit(0) THEN liveMounts \cup {dir} ELSE liveMounts

MountArchiveRun(sel, dir, files, choice, m) ==
    LET config == get_current_config
        filesCall == Ended(SnapshotFilesCmd(sel, config), files.run)
        same(calls, boxes) == MountOut(current_mount, liveMounts, calls, boxes)
    IN
    IF AlreadyMounted
    THEN same(<<>>, <<Warning("An archive is already mounted")>>)
    ELSE IF sel = None
    THEN same(<<>>, <<Warning("Please select an archive to mount")>>)
    ELSE IF dir = ""
    THEN same(<<>>, <<>>)
    ELSE IF config.empty
    THEN same(<<>>, <<Warning("Failed to mount archive: 'api_key'")>>)
    ELSE IF files.run = LaunchError
    THEN same(<<filesCall>>, <<Warning("Failed to mount archive: launch")>>)
    ELSE IF files.run.returncode # 0
    THEN same(<<filesCall>>, <<Warning("Failed to list snapshot contents")>>)
    ELSE IF ~files.stdout.json
    THEN same(<<filesCall>>, <<Warning("Failed to parse snapshot data")>>)
    ELSE IF RaisesKeyError(files.stdout.data)
    THEN same(<<filesCall>>, <<Warning("Failed to mount archive: 'filename'")>>)
    ELSE
    LET pxar_files == PxarFiles(files.stdout.data) IN
    IF pxar_files = <<>>
    THEN same(<<filesCall>>, <<Warning("No .pxar.didx files found in backup")>>)
    ELSE IF Len(pxar_files) > 1 /\ ~choice.ok
    THEN same(<<filesCall>>, <<>>)
    ELSE
    LET selected_file ==
            IF Len(pxar_files) > 1 THEN choice.item ELSE pxar_files[1]
        mountCall == Ended(MountCmd(sel, selected_file, dir, config), m)
    IN
    IF m = LaunchError
    THEN same(<<filesCall, mountCall>>,
              <<Warning("Failed to mount archive: launch")>>)
    ELSE IF MountSucceeded(m)
    THEN MountOut(dir, LiveAfterMount(dir, m), <<filesCall, mountCall>>,
                  <<Information("Archive mounted successfully")>>)
    ELSE MountOut(current_mount, LiveAfterMount(dir, m),
                  <<filesCall, mountCall>>,
                  <<Warning("Failed to mount archive")>>)

mount_archive ==
    /\ gui = "idle"
    /\ \E dir \in DirChoices, files \in FilesRuns, m \in RunResults :
        \E choice \in ChoicesFor(files) :
            LET r == MountArchiveRun(SelectedBackupId, dir, files, choice, m)
            IN
            /\ current_mount' = r.current_mount
            /\ liveMounts' = r.liveMounts
            /\ spawned' = r.spawned
            /\ dialogs' = r.dialogs
    /\ lastOp' = "mount_archive"
    /\ UNCHANGED <<storeVars, tableVars, guiVars, backupVars, restoreVars>>

(***************************************************************************)
(* unmount_current.  subprocess.run blocks the GUI thread while fusermount *)
(* runs, so the handler is two steps: the call, and the return with the    *)
(* way the call ended.                                                     *)
(***************************************************************************)
NotMounted_Never == FALSE

\* if not self.current_mount:
NotMounted == current_mount = None

UnmountCall ==
    IF NotMounted
    THEN /\ spawned' = <<>>
         /\ dialogs' = <<Information("No archive is currently mounted")>>
         /\ gui' = IF closing' THEN "closed" ELSE "idle"
    ELSE /\ spawned' = <<Ended(UnmountCmd(current_mount), Running)>>
         /\ dialogs' = <<>>
         /\ gui' = "unmount_run"

unmount_current ==
    /\ gui = "idle"
    /\ lastOp' = "unmount_current"
    /\ closing' = closing
    /\ UnmountCall
    /\ UNCHANGED <<storeVars, tableVars, mountVars, backupVars, restoreVars>>

UnmountSucceeded_Always(u) == TRUE

\* if result.returncode == 0:
UnmountSucceeded(u) == u.kind = "exit" /\ u.returncode = 0

UnmountReturn ==
    /\ gui = "unmount_run"
    /\ \E u \in RunResults :
        /\ spawned' = <<Ended(UnmountCmd(current_mount), u)>>
        /\ current_mount' = IF UnmountSucceeded(u) THEN None
                            ELSE current_mount
        /\ liveMounts' = IF u = Exit(0) THEN liveMounts \ {current_mount}
                         ELSE liveMounts
        /\ dialogs' = IF UnmountSucceeded(u)
                      THEN <<Information("Archive unmounted successfully")>>
                      ELSE <<Warning("Failed to unmount archive")>>
    /\ gui' = IF closing THEN "closed" ELSE "idle"
    /\ UNCHANGED <<storeVars, tableVars, closing, lastOp, backupVars,
                   restoreVars>>

(***************************************************************************)
(* closeEvent, reached by closing the window and by the tray menu's Quit   *)
(* (QApplication.quit closes the windows before the event loop ends).      *)
(* event.accept() is the step into "closed".                               *)
(***************************************************************************)
CloseCallsUnmount_Never == FALSE

\* if self.current_mount:
CloseCallsUnmount == current_mount # None

closeEvent ==
    /\ gui = "idle"
    /\ closing' = TRUE
    /\ lastOp' = "closeEvent"
    /\ IF CloseCallsUnmount
       THEN UnmountCall
       ELSE /\ spawned' = <<>>
            /\ dialogs' = <<>>
            /\ gui' = "closed"
    /\ UNCHANGED <<storeVars, tableVars, mountVars, backupVars, restoreVars>>

(***************************************************************************)
(* The backup command line and the credential environment.  A path is the  *)
(* sequence of its "/"-separated components, so "/a/b/" is                 *)
(* <<"", "a", "b", "">>.                                                   *)
(***************************************************************************)
\* "/home/u/docs" and "/home/u/pics/", split at "/"
PathDocs == <<"", "home", "u", "docs">>
PathPics == <<"", "home", "u", "pics", "">>

\* str.rstrip('/')
RECURSIVE RStripSlash(_)
RStripSlash(path) ==
    IF Len(path) > 1 /\ path[Len(path)] = ""
    THEN RStripSlash(SubSeq(path, 1, Len(path) - 1))
    ELSE path

\* os.path.basename
Basename(path) == path[Len(path)]

\* f"{dir_name}.{source.archive_type}:{source.path}"
SourceArg(source) ==
    [dir_name |-> Basename(RStripSlash(source.path)),
     archive_type |-> source.archive_type, path |-> source.path]

\* f"--exclude={exclusion}"
ExcludeArg(exclusion) == [exclude |-> exclusion]

\* the exclusions of a source after the arguments of the sources behind it
RECURSIVE SourceArgs_ExcludesLast(_)
SourceArgs_ExcludesLast(sources) ==
    IF sources = <<>> THEN <<>>
    ELSE <<SourceArg(Head(sources))>>
         \o SourceArgs_ExcludesLast(Tail(sources))
         \o [i \in 1..Len(Head(sources).exclusions) |->
                ExcludeArg(Head(sources).exclusions[i])]

RECURSIVE SourceArgs(_)
SourceArgs(sources) ==
    IF sources = <<>> THEN <<>>
    ELSE <<SourceArg(Head(sources))>>
         \o [i \in 1..Len(Head(sources).exclusions) |->
                ExcludeArg(Head(sources).exclusions[i])]
         \o SourceArgs(Tail(sources))

get_backup_command(config) ==
    <<"proxmox-backup-client", "backup">>
    \o SourceArgs(config.backup_sources)
    \o <<"--repository", config.repository>>

\* BackupWorker.run: PBS_PASSWORD, and PBS_FINGERPRINT if there is one
BackupEnv(config) ==
    {<<"PBS_PASSWORD", config.api_key>>}
    \cup (IF config.fingerprint # ""
          THEN {<<"PBS_FINGERPRINT", config.fingerprint>>}
          ELSE {})

(***************************************************************************)
(* Output lines.  A line is the sequence of its characters, without the    *)
(* newline that ends it.                                                   *)
(***************************************************************************)
LinePlain == <<"o", "k">>
LinePadded == <<" ", "4", "2", "%", " ">>
LineSet == {LinePlain, LinePadded}

RECURSIVE LStrip(_)
LStrip(line) ==
    IF line # <<>> /\ Head(line) = " " THEN LStrip(Tail(line)) ELSE line

RECURSIVE RStrip(_)
RStrip(line) ==
    IF line # <<>> /\ line[Len(line)] = " "
    THEN RStrip(SubSeq(line, 1, Len(line) - 1))
    ELSE line

\* output.strip()
Strip(line) == LStrip(RStrip(line))

\* what the progress signal carries: a text, and for the runner's own
\* "Running command: ..." line the command it names
RunningCommand(cmd) == [text |-> <<"Running command: ">>, cmd |-> cmd]
OutputLine(line) == [text |-> Strip(line), cmd |-> <<>>]

\* what the finished signal carries
Finished(success, text, stderr) ==
    [success |-> success, text |-> text, stderr |-> stderr]

ErrChunk == "E"

(***************************************************************************)
(* start_backup and the BackupWorker thread.  A run is numbered when       *)
(* start_backup creates its worker.  The worker's steps are the places     *)
(* where it reads the store, starts the child or reads the pipe; signals   *)
(* it emits are queued to the GUI thread.                                  *)
(***************************************************************************)
Runs == 1..MaxRuns

\* a worker: where run() is, the env and cmd it has built, and (for the
\* record only) the configuration start_backup validated for it
NoWorker ==
    [pc |-> "none", env |-> {}, cmd |-> <<>>, accepted |-> EmptyConfig]
NoChild == [state |-> "none", out_pipe |-> <<>>, written |-> <<>>,
            err_pipe |-> <<>>, err_written |-> <<>>, code |-> -1]

NextRun == CHOOSE w \in Runs :
              /\ workers[w].pc = "none"
              /\ \A v \in Runs : v < w => workers[v].pc # "none"

CanStartRun == \E w \in Runs : workers[w].pc = "none"

ProgressEvent(w, msg) == [run |-> w, signal |-> "progress", arg |-> msg]
FinishedEvent(w, res) == [run |-> w, signal |-> "finished", arg |-> res]

\* if not self.validate_config(): return
StartAccepted == validate_config

start_backup ==
    /\ gui = "idle"
    /\ CanStartRun
    /\ lastOp' = "start_backup"
    /\ spawned' = <<>>
    /\ IF StartAccepted
       THEN /\ workers' = [workers EXCEPT
                   ![NextRun].pc = "env",
                   ![NextRun].accepted = get_current_config]
            /\ progress_label' = "Backup in progress..."
            /\ dialogs' = <<>>
       ELSE /\ dialogs' = <<Warning(ValidationMessage)>>
            /\ UNCHANGED <<workers, progress_label>>
    /\ UNCHANGED <<storeVars, tableVars, mountVars, guiVars, children,
                   eventQueue, delivered, terminal, restoreVars>>

\* run(), lines 82-86: config = get_current_config(); env from it
WorkerEnv(w) ==
    /\ workers[w].pc = "env"
    /\ IF get_current_config.empty
       THEN /\ workers' = [workers EXCEPT ![w].pc = "done"]
            /\ eventQueue' = Append(eventQueue,
                   FinishedEvent(w, Finished(FALSE, "Error: 'api_key'", <<>>)))
       ELSE /\ workers' = [workers EXCEPT
                   ![w].pc = "cmd",
                   ![w].env = BackupEnv(get_current_config)]
            /\ UNCHANGED eventQueue
    /\ UNCHANGED <<storeVars, tableVars, mountVars, guiVars, obsVars,
                   children, delivered, terminal, progress_label, restoreVars>>

\* run(), lines 88-91: get_backup_command() reads the store again
WorkerCmd(w) ==
    /\ workers[w].pc = "cmd"
    /\ IF get_current_config.empty
       THEN /\ workers' = [workers EXCEPT ![w].pc = "done"]
            /\ eventQueue' = Append(eventQueue,
                   FinishedEvent(w, Finished(FALSE, "Error: 'backup_sources'",
                                             <<>>)))
       ELSE LET cmd == get_backup_command(get_current_config) IN
            /\ workers' = [workers EXCEPT ![w].pc = "popen", ![w].cmd = cmd]
            /\ eventQueue' = Append(eventQueue,
                   ProgressEvent(w, RunningCommand(cmd)))
    /\ UNCHANGED <<storeVars, tableVars, mountVars, guiVars, obsVars,
                   children, delivered, terminal, progress_label, restoreVars>>

\* run(), lines 93-99: Popen starts the child, or raises
WorkerPopen(w) ==
    /\ workers[w].pc = "popen"
    /\ \/ /\ workers' = [workers EXCEPT ![w].pc = "read"]
          /\ children' = [children EXCEPT ![w].state = "running"]
          /\ UNCHANGED eventQueue
       \/ /\ workers' = [workers EXCEPT ![w].pc = "done"]
          /\ eventQueue' = Append(eventQueue,
                 FinishedEvent(w, Finished(FALSE, "Error: launch", <<>>)))
          /\ UNCHANGED children
    /\ UNCHANGED <<storeVars, tableVars, mountVars, guiVars, obsVars,
                   delivered, terminal, progress_label, restoreVars>>

\* run(), lines 101-106: readline() returns a line, which is emitted
WorkerReadLine(w) ==
    /\ workers[w].pc = "read"
    /\ children[w].out_pipe # <<>>
    /\ children' = [children EXCEPT ![w].out_pipe = Tail(@)]
    /\ eventQueue' = Append(eventQueue,
           ProgressEvent(w, OutputLine(Head(children[w].out_pipe))))
    /\ UNCHANGED <<storeVars, tableVars, mountVars, guiVars, obsVars, workers,
                   delivered, terminal, progress_label, restoreVars>>

\* if returncode == 0:
SuccessCode(code) == code = 0

\* run(), lines 103-114: readline() returns '' at end of file and the child
\* has exited; the result is emitted
WorkerFinish(w) ==
    /\ workers[w].pc = "read"
    /\ children[w].out_pipe = <<>>
    /\ children[w].state = "exited"
    /\ workers' = [workers EXCEPT ![w].pc = "done"]
    /\ eventQueue' = Append(eventQueue,
           FinishedEvent(w,
               IF SuccessCode(children[w].code)
               THEN Finished(TRUE, "Backup completed successfully", <<>>)
               ELSE Finished(FALSE, "Backup failed: ", children[w].err_pipe)))
    /\ UNCHANGED <<storeVars, tableVars, mountVars, guiVars, obsVars,
                   children, delivered, terminal, progress_label, restoreVars>>

(***************************************************************************)
(* The backup client child.  It writes lines to its standard output,       *)
(* chunks to its standard error, and exits.  The worker does not read      *)
(* standard error before the child has exited, so a child that writes to a *)
(* full standard-error pipe blocks.                                        *)
(***************************************************************************)
ChildWriteOut(w) ==
    /\ children[w].state = "running"
    /\ Len(children[w].written) < MaxLines
    /\ \E line \in LineSet :
        children' = [children EXCEPT ![w].out_pipe = Append(@, line),
                                     ![w].written = Append(@, line)]
    /\ UNCHANGED <<storeVars, tableVars, mountVars, guiVars, obsVars, workers,
                   eventQueue, delivered, terminal, progress_label,
                   restoreVars>>

ChildWriteErr(w) ==
    /\ children[w].state = "running"
    /\ Len(children[w].err_written) < MaxErr
    /\ IF Len(children[w].err_pipe) < PipeCap
       THEN children' = [children EXCEPT
                ![w].err_pipe = Append(@, ErrChunk),
                ![w].err_written = Append(@, ErrChunk)]
       ELSE children' = [children EXCEPT ![w].state = "blocked"]
    /\ UNCHANGED <<storeVars, tableVars, mountVars, guiVars, obsVars, workers,
                   eventQueue, delivered, terminal, progress_label,
                   restoreVars>>

ChildExit(w) ==
    /\ children[w].state = "running"
    /\ \E code \in {0, 1} :
        children' = [children EXCEPT ![w].state = "exited", ![w].code = code]
    /\ UNCHANGED <<storeVars, tableVars, mountVars, guiVars, obsVars, workers,
                   eventQueue, delivered, terminal, progress_label,
                   restoreVars>>

(***************************************************************************)
(* The GUI thread takes the queued signals in order: update_progress and   *)
(* backup_finished.                                                        *)
(***************************************************************************)
\* backup_finished on success: last_backup is set, then save_settings
ProfilesAfterBackup ==
    IF current_profile_name = None THEN profiles
    ELSE ProfilesAfterSave(
            [i \in 1..Len(profiles) |->
                IF profiles[i].name = current_profile_name
                THEN [profiles[i] EXCEPT !.last_backup = "now"]
                ELSE profiles[i]],
            current_profile_name)

update_progress ==
    /\ gui = "idle"
    /\ eventQueue # <<>>
    /\ Head(eventQueue).signal = "progress"
    /\ eventQueue' = Tail(eventQueue)
    /\ delivered' = [delivered EXCEPT
           ![Head(eventQueue).run] = Append(@, Head(eventQueue).arg)]
    /\ progress_label' = Head(eventQueue).arg.text
    /\ UNCHANGED <<storeVars, tableVars, mountVars, guiVars, obsVars, workers,
                   children, terminal, restoreVars>>

backup_finished ==
    /\ gui = "idle"
    /\ eventQueue # <<>>
    /\ Head(eventQueue).signal = "finished"
    /\ eventQueue' = Tail(eventQueue)
    /\ terminal' = [terminal EXCEPT
           ![Head(eventQueue).run] = Append(@, Head(eventQueue).arg)]
    /\ progress_label' = Head(eventQueue).arg.text
    /\ IF Head(eventQueue).arg.success /\ current_profile_name # None
       THEN \E io \in IOResults :
               /\ profiles' = ProfilesAfterBackup
               /\ config_file' = FileAfterSave(ProfilesAfterBackup, io)
       ELSE UNCHANGED <<profiles, config_file>>
    /\ UNCHANGED <<current_profile_name, profile_combo, repo_edit, api_edit,
                   fingerprint_edit, tableVars, mountVars, guiVars, obsVars,
                   workers, children, delivered, restoreVars>>

(***************************************************************************)
(* Handlers that change the store while a backup may be in flight.         *)
(***************************************************************************)
WithSources(ps, name, sources) ==
    [i \in 1..Len(ps) |->
        IF ps[i].name = name THEN [ps[i] EXCEPT !.backup_sources = sources]
        ELSE ps[i]]

\* the profile combo box changes to another profile of the store
switch_profile ==
    /\ gui = "idle"
    /\ \E name \in ProfileNames \ {current_profile_name} :
        /\ current_profile_name' = name
        /\ profile_combo' = name
        /\ repo_edit' = Profile(name).repository
        /\ api_edit' = Profile(name).api_key
        /\ fingerprint_edit' = Profile(name).fingerprint
    /\ UNCHANGED <<profiles, config_file, tableVars, mountVars, guiVars,
                   obsVars, backupVars, restoreVars>>

SourcePaths == {PathPics}
ArchiveTypes == {"pxar", "img"}

add_source ==
    /\ gui = "idle"
    /\ current_profile_name # None
    /\ Len(Profile(current_profile_name).backup_sources) < MaxSources
    /\ \E path \in SourcePaths, archive_type \in ArchiveTypes, io \in IOResults :
        LET added == WithSources(profiles, current_profile_name,
                         Append(Profile(current_profile_name).backup_sources,
                                BackupSource(path, archive_type)))
            saved == ProfilesAfterSave(added, current_profile_name)
        IN
        /\ profiles' = saved
        /\ config_file' = FileAfterSave(saved, io)
        /\ dialogs' = SaveDialogs(io)
    /\ lastOp' = "add_source"
    /\ spawned' = <<>>
    /\ UNCHANGED <<current_profile_name, profile_combo, repo_edit, api_edit,
                   fingerprint_edit, tableVars, mountVars, guiVars,
                   backupVars, restoreVars>>

remove_source ==
    /\ gui = "idle"
    /\ current_profile_name # None
    /\ \E row \in 1..Len(Profile(current_profile_name).backup_sources),
          io \in IOResults :
        LET removed == WithSources(profiles, current_profile_name,
                           RemoveAt(Profile(current_profile_name).backup_sources,
                                    row))
            saved == ProfilesAfterSave(removed, current_profile_name)
        IN
        /\ profiles' = saved
        /\ config_file' = FileAfterSave(saved, io)
        /\ dialogs' = SaveDialogs(io)
    /\ lastOp' = "remove_source"
    /\ spawned' = <<>>
    /\ UNCHANGED <<current_profile_name, profile_combo, repo_edit, api_edit,
                   fingerprint_edit, tableVars, mountVars, guiVars,
                   backupVars, restoreVars>>

(***************************************************************************)
(* restore_archive.  Up to Popen the handler runs like mount_archive.      *)
(* Then the GUI thread loops: it blocks in readline() until the child      *)
(* writes a line or closes its output, drops the line, leaves the loop if  *)
(* the child has exited, and otherwise lets Qt process the pending events  *)
(* (among them a click on the progress dialog's Cancel) and looks at       *)
(* wasCanceled().                                                          *)
(***************************************************************************)
NoRestore ==
    [child |-> "none", code |-> -1, pipe |-> 0, written |-> 0,
     sigterm |-> FALSE, clicked |-> FALSE, canceled |-> FALSE,
     outcome |-> "none"]

RestoreCmd(backup_id, file, restore_path, config) ==
    Proc(<<"proxmox-backup-client", "restore", backup_id, file, restore_path,
           "--repository", config.repository>>,
         PasswordEnv(config))

RestoreOut(started, calls, boxes) ==
    [started |-> started, spawned |-> calls, dialogs |-> boxes]

RestoreArchiveRun(sel, dir, files, choice, launch) ==
    LET config == get_current_config
        filesCall == Ended(SnapshotFilesCmd(sel, config), files.run)
        stop(calls, boxes) == RestoreOut(FALSE, calls, boxes)
    IN
    IF sel = None
    THEN stop(<<>>, <<Warning("Please select an archive to restore")>>)
    ELSE IF dir = ""
    THEN stop(<<>>, <<>>)
    ELSE IF config.empty
    THEN stop(<<>>, <<Warning("Failed to restore archive: 'api_key'")>>)
    ELSE IF files.run = LaunchError
    THEN stop(<<filesCall>>, <<Warning("Failed to restore archive: launch")>>)
    ELSE IF files.run.returncode # 0
    THEN stop(<<filesCall>>, <<Warning("Failed to list snapshot contents")>>)
    ELSE IF ~files.stdout.json
    THEN stop(<<filesCall>>, <<Warning("Failed to parse snapshot data")>>)
    ELSE IF RaisesKeyError(files.stdout.data)
    THEN stop(<<filesCall>>,
              <<Warning("Failed to restore archive: 'filename'")>>)
    ELSE
    LET pxar_files == PxarFiles(files.stdout.data) IN
    IF pxar_files = <<>>
    THEN stop(<<filesCall>>, <<Warning("No .pxar.didx files found in backup")>>)
    ELSE IF Len(pxar_files) > 1 /\ ~choice.ok
    THEN stop(<<filesCall>>, <<>>)
    ELSE
    LET selected_file ==
            IF Len(pxar_files) > 1 THEN choice.item ELSE pxar_files[1]
        restoreCall == RestoreCmd(sel, selected_file, dir, config)
    IN
    IF launch = LaunchError
    THEN stop(<<filesCall, Ended(restoreCall, LaunchError)>>,
              <<Warning("Failed to restore archive: launch")>>)
    ELSE RestoreOut(TRUE, <<filesCall, restoreCall>>, <<>>)

restore_archive ==
    /\ gui = "idle"
    /\ \E dir \in DirChoices, files \in FilesRuns,
          launch \in {LaunchError, Running} :
        \E choice \in ChoicesFor(files) :
            LET r == RestoreArchiveRun(SelectedBackupId, dir, files, choice,
                                       launch)
            IN
            /\ spawned' = r.spawned
            /\ dialogs' = r.dialogs
            /\ gui' = IF r.started THEN "restore_readline" ELSE "idle"
            /\ restore' = IF r.started
                          THEN [NoRestore EXCEPT !.child = "running"]
                          ELSE restore
    /\ lastOp' = "restore_archive"
    /\ UNCHANGED <<storeVars, tableVars, mountVars, closing, backupVars>>

\* output = process.stdout.readline(): a line, or '' at end of file
RestoreReadline ==
    /\ gui = "restore_readline"
    /\ restore.pipe > 0 \/ restore.child = "exited"
    /\ restore' = [restore EXCEPT
           !.pipe = IF restore.pipe > 0 THEN restore.pipe - 1 ELSE 0]
    /\ gui' = "restore_poll"
    /\ UNCHANGED <<storeVars, tableVars, mountVars, closing, obsVars,
                   backupVars>>

\* QApplication.processEvents() handles the click; progress.wasCanceled()
CancelSeen == restore.clicked \/ restore.canceled

\* lines 958-975: poll(), and either the end of the loop with the result, or
\* processEvents() and the look at wasCanceled()
RestorePoll ==
    /\ gui = "restore_poll"
    /\ IF restore.child = "exited"
       THEN /\ restore' = [restore EXCEPT
                   !.outcome = IF restore.code = 0 THEN "success"
                               ELSE "failed"]
            /\ dialogs' =
                   IF restore.code = 0
                   THEN <<Information("Archive restored successfully")>>
                   ELSE <<Warning("Failed to restore archive")>>
            /\ spawned' = [spawned EXCEPT
                   ![Len(spawned)] = Ended(@, Exit(restore.code))]
            /\ gui' = "idle"
       ELSE IF CancelSeen
       THEN /\ restore' = [restore EXCEPT
                   !.clicked = FALSE, !.canceled = TRUE, !.sigterm = TRUE,
                   !.outcome = "cancelled"]
            /\ dialogs' = <<Warning("Restore operation cancelled")>>
            /\ gui' = "idle"
            /\ UNCHANGED spawned
       ELSE /\ gui' = "restore_readline"
            /\ UNCHANGED <<restore, dialogs, spawned>>
    /\ UNCHANGED <<storeVars, tableVars, mountVars, closing, lastOp,
                   backupVars>>

\* the user clicks Cancel on the progress dialog; Qt handles the click when
\* the GUI thread next processes events
ClickCancel ==
    /\ gui \in {"restore_readline", "restore_poll"}
    /\ ~restore.clicked
    /\ ~restore.canceled
    /\ restore' = [restore EXCEPT !.clicked = TRUE]
    /\ UNCHANGED <<storeVars, tableVars, mountVars, guiVars, obsVars,
                   backupVars>>

\* the restore child: writes a line, exits on its own, or exits on SIGTERM
RestoreChildWrite ==
    /\ restore.child = "running"
    /\ restore.written < MaxRestoreLines
    /\ restore' = [restore EXCEPT !.pipe = @ + 1, !.written = @ + 1]
    /\ UNCHANGED <<storeVars, tableVars, mountVars, guiVars, obsVars,
                   backupVars>>

RestoreChildExit ==
    /\ restore.child = "running"
    /\ \E code \in {0, 1} :
        restore' = [restore EXCEPT !.child = "exited", !.code = code]
    /\ UNCHANGED <<storeVars, tableVars, mountVars, guiVars, obsVars,
                   backupVars>>

SigTerm == 15

RestoreChildTerminated ==
    /\ restore.child = "running"
    /\ restore.sigterm
    /\ restore' = [restore EXCEPT !.child = "exited", !.code = -SigTerm]
    /\ UNCHANGED <<storeVars, tableVars, mountVars, guiVars, obsVars,
                   backupVars>>

(***************************************************************************)
(* Initial state: __init__ has run.                                        *)
(***************************************************************************)
SourceDocs == [BackupSource(PathDocs, "pxar") EXCEPT
                  !.exclusions = <<"*.tmp">>]
SourcePics == BackupSource(PathPics, "img")

ProfileWork ==
    [name |-> "Work", repository |-> "u@pbs@host:store", api_key |-> "k1",
     fingerprint |-> "fp1", backup_sources |-> <<SourceDocs>>,
     last_backup |-> None]

InitStore ==
    /\ profiles = <<ProfileWork, BackupProfile("Zeta")>>
    /\ current_profile_name = "Work"
    /\ profile_combo = "Work"
    /\ repo_edit = ProfileWork.repository
    /\ api_edit = ProfileWork.api_key
    /\ fingerprint_edit = ProfileWork.fingerprint
    /\ config_file = WrittenFile(Mode600, ConfigData(profiles))

InitTable ==
    /\ archives_table = <<SnapshotNew, SnapshotOld>>
    /\ selected_row = 0
    /\ archive_data = <<ArchiveNew, ArchiveOld>>

InitMount ==
    /\ current_mount = None
    /\ liveMounts = {}

InitGui ==
    /\ gui = "idle"
    /\ closing = FALSE
    /\ lastOp = "init"
    /\ spawned = <<>>
    /\ dialogs = <<>>

InitBackup ==
    /\ workers = [w \in Runs |-> NoWorker]
    /\ children = [w \in Runs |-> NoChild]
    /\ eventQueue = <<>>
    /\ delivered = [w \in Runs |-> <<>>]
    /\ terminal = [w \in Runs |-> <<>>]
    /\ progress_label = "Ready"

InitRestore ==
    restore = NoRestore

Init == InitStore /\ InitTable /\ InitMount /\ InitGui /\ InitBackup /\ InitRestore

(***************************************************************************)
(* The mount slot and shutdown.                                            *)
(***************************************************************************)
NextMount == SelectRow \/ mount_archive \/ unmount_current \/ UnmountReturn \/ closeEvent

SpecMount == Init /\ [][NextMount]_vars

\* the unmount helper returns and the user dismisses the message boxes
SpecMountFair == SpecMount /\ WF_vars(UnmountReturn)

(***************************************************************************)
(* Backups: any number of runs up to MaxRuns, with the store edited while  *)
(* they are in flight.                                                     *)
(***************************************************************************)
WorkerStep == \E w \in Runs :
    WorkerEnv(w) \/ WorkerCmd(w) \/ WorkerPopen(w) \/ WorkerReadLine(w)
    \/ WorkerFinish(w)

ChildStep == \E w \in Runs :
    ChildWriteOut(w) \/ ChildWriteErr(w) \/ ChildExit(w)

NoRunYet == \A w \in Runs : workers[w].pc = "none"

\* one streaming run, from start_backup to the delivery of its result
NextStream ==
    \/ (start_backup /\ NoRunYet)
    \/ WorkerStep
    \/ ChildStep
    \/ update_progress
    \/ backup_finished

SpecStream == Init /\ [][NextStream]_vars

\* up to MaxRuns runs whose children write nothing, with the store edited
\* while they are in flight
NextBackup ==
    \/ start_backup
    \/ switch_profile
    \/ remove_source
    \/ \E w \in Runs :
          WorkerEnv(w) \/ WorkerCmd(w) \/ WorkerPopen(w) \/ WorkerFinish(w)
    \/ \E w \in Runs : ChildExit(w)
    \/ update_progress
    \/ backup_finished

SpecBackup == Init /\ [][NextBackup]_vars

(***************************************************************************)
(* Restores.                                                               *)
(***************************************************************************)
NextRestore ==
    \/ SelectRow
    \/ restore_archive
    \/ RestoreReadline
    \/ RestorePoll
    \/ ClickCancel
    \/ RestoreChildWrite
    \/ RestoreChildExit
    \/ RestoreChildTerminated

SpecRestore == Init /\ [][NextRestore]_vars

\* the GUI thread runs when it can; nothing is assumed of the child
SpecRestoreFair ==
    SpecRestore /\ WF_vars(RestoreReadline) /\ WF_vars(RestorePoll)

\* the worker thread and the GUI thread's event loop run when they can, and
\* a child that is not blocked in a write comes to its end
SpecStreamFair ==
    /\ SpecStream
    /\ WF_vars(WorkerStep)
    /\ WF_vars(update_progress)
    /\ WF_vars(backup_finished)
    /\ \A w \in Runs : WF_vars(ChildExit(w))

(***************************************************************************)
(* Loading the store.  What yaml.safe_load gives is a dict, modelled as a  *)
(* function from keys to values; {} is the empty function.                 *)
(***************************************************************************)
DictGet(d, key, default) == IF key \in DOMAIN d THEN d[key] ELSE default

\* BackupSource.from_dict: data['path'], data['archive_type'] raise KeyError
SourceFromDictRaises(d) == ~({"path", "archive_type"} \subseteq DOMAIN d)

SourceFromDict_NoExclusions(d) ==
    [path |-> d.path, archive_type |-> d.archive_type, exclusions |-> <<>>]

SourceFromDict(d) ==
    [path |-> d.path, archive_type |-> d.archive_type,
     exclusions |-> DictGet(d, "exclusions", <<>>)]

\* BackupProfile.from_dict
ProfileFromDictRaises(d) ==
    \/ \E i \in 1..Len(DictGet(d, "backup_sources", <<>>)) :
          SourceFromDictRaises(DictGet(d, "backup_sources", <<>>)[i])
    \/ ~({"name", "repository", "api_key"} \subseteq DOMAIN d)

ProfileFromDict(d) ==
    [name |-> d.name, repository |-> d.repository, api_key |-> d.api_key,
     fingerprint |-> DictGet(d, "fingerprint", ""),
     backup_sources |->
         MapSeq(DictGet(d, "backup_sources", <<>>), SourceFromDict),
     last_backup |-> None]

\* self.profiles[profile.name] = profile
PutProfile(ps, p) ==
    IF \E i \in 1..Len(ps) : ps[i].name = p.name
    THEN [i \in 1..Len(ps) |-> IF ps[i].name = p.name THEN p ELSE ps[i]]
    ELSE Append(ps, p)

RECURSIVE LoadProfiles(_, _)
LoadProfiles(recs, acc) ==
    IF recs = <<>> THEN acc
    ELSE LoadProfiles(Tail(recs), PutProfile(acc, ProfileFromDict(Head(recs))))

\* lines 569-577: a file without 'profiles' is read as one profile "Default"
ProfilesData(data) ==
    IF "profiles" \in DOMAIN data
    THEN data.profiles
    ELSE <<[name |-> "Default",
            repository |-> DictGet(data, "repository", ""),
            api_key |-> DictGet(data, "api_key", ""),
            backup_sources |-> DictGet(data, "backup_sources", <<>>)]>>

LoadRaises(file) ==
    /\ file.exists
    /\ \/ ~file.parses
       \/ \E i \in 1..Len(ProfilesData(file.data)) :
             ProfileFromDictRaises(ProfilesData(file.data)[i])

LoadOut(ps, cur, boxes) == [profiles |-> ps, current |-> cur, dialogs |-> boxes]

load_config(file) ==
    LET loaded == IF file.exists
                  THEN LoadProfiles(ProfilesData(file.data), <<>>)
                  ELSE <<>>
    IN
    IF LoadRaises(file)
    THEN LoadOut(<<BackupProfile("Default")>>, "Default",
                 <<Warning("Failed to load config")>>)
    ELSE IF loaded = <<>>
    THEN LoadOut(<<BackupProfile("Default")>>, "Default", <<>>)
    ELSE LoadOut(loaded, loaded[1].name, <<>>)

(***************************************************************************)
(* The profile selector.  profile_combo.currentTextChanged is connected to *)
(* switch_profile (line 208), so update_profile_selector, which clears and *)
(* refills the combo box, runs switch_profile for the texts the box takes. *)
(* A selection is the current profile name, the text of the box and the    *)
(* three settings fields.                                                  *)
(***************************************************************************)
\* the profile names of the model, in the order sorted() gives them
ProfileNameOrder == <<"Alpha", "Default", "Work", "Zeta">>

NameRank(name) ==
    CHOOSE i \in 1..Len(ProfileNameOrder) : ProfileNameOrder[i] = name

NamesOf(ps) == {ps[i].name : i \in 1..Len(ps)}

ProfileIn(ps, name) == ps[CHOOSE i \in 1..Len(ps) : ps[i].name = name]

\* sorted(self.profiles.keys())[0]: the text the refilled box shows
FirstSorted(names) ==
    CHOOSE n \in names : \A m \in names : NameRank(n) <= NameRank(m)

Selection(cur, combo, repo, api, fp) ==
    [current |-> cur, combo |-> combo, repo_edit |-> repo, api_edit |-> api,
     fingerprint_edit |-> fp]

CurrentSelection ==
    Selection(current_profile_name, profile_combo, repo_edit, api_edit,
              fingerprint_edit)

\* update_ui_from_profile, lines 654-664
UpdateUiFromProfile(ps, sel) ==
    IF sel.current = None THEN sel
    ELSE [sel EXCEPT !.repo_edit = ProfileIn(ps, sel.current).repository,
                     !.api_edit = ProfileIn(ps, sel.current).api_key,
                     !.fingerprint_edit =
                         ProfileIn(ps, sel.current).fingerprint]

ComboShows_Unconnected(ps, sel, text) == [sel EXCEPT !.combo = text]

\* the box takes the text; if the text changed, switch_profile(text) runs
ComboShows(ps, sel, text) ==
    IF text = sel.combo THEN sel
    ELSE IF text # "" /\ text \in NamesOf(ps)
    THEN UpdateUiFromProfile(ps, [sel EXCEPT !.combo = text, !.current = text])
    ELSE [sel EXCEPT !.combo = text]

\* update_profile_selector, lines 635-645
update_profile_selector(ps, sel) ==
    LET current == sel.combo
        cleared == ComboShows(ps, sel, "")
        filled == IF ps = <<>> THEN cleared
                  ELSE ComboShows(ps, cleared, FirstSorted(NamesOf(ps)))
        wanted == IF current \in NamesOf(ps) THEN current ELSE filled.current
    IN
    IF wanted \in NamesOf(ps) THEN ComboShows(ps, filled, wanted) ELSE filled

\* __init__: load_config, then setup_ui, which fills the settings fields
\* from the current profile (lines 468-488) and ends in
\* update_profile_selector on the empty box (line 231)
Constructed(file) ==
    LET loaded == load_config(file) IN
    [profiles |-> loaded.profiles,
     dialogs |-> loaded.dialogs,
     sel |-> update_profile_selector(loaded.profiles,
                 UpdateUiFromProfile(loaded.profiles,
                     Selection(loaded.current, "", "", "", "")))]

(***************************************************************************)
(* Handlers of the profile store: the settings fields, Save Settings, New  *)
(* Profile, Delete Profile.                                                *)
(***************************************************************************)
MaxProfiles == 3

\* what the user types into the three settings fields: repository, API key
\* and fingerprint
TypedSettings == {<<"", "", "">>, <<"u@pbs@host:other", "k2", "">>}

edit_settings ==
    /\ gui = "idle"
    /\ \E typed \in TypedSettings :
        /\ <<repo_edit, api_edit, fingerprint_edit>> # typed
        /\ repo_edit' = typed[1]
        /\ api_edit' = typed[2]
        /\ fingerprint_edit' = typed[3]
    /\ UNCHANGED <<profiles, current_profile_name, profile_combo, config_file,
                   tableVars, mountVars, guiVars, obsVars, backupVars,
                   restoreVars>>

\* save_settings, lines 605-609, for a selection
SaveInto(ps, sel) ==
    IF sel.current = None THEN ps
    ELSE [i \in 1..Len(ps) |->
            IF ps[i].name = sel.current
            THEN [ps[i] EXCEPT !.repository = sel.repo_edit,
                               !.api_key = sel.api_edit,
                               !.fingerprint = sel.fingerprint_edit]
            ELSE ps[i]]

\* the store, the selection and the file after a handler that changed the
\* store to ps and the current profile to cur, and then ran
\* update_profile_selector, update_ui_from_profile and save_settings
StoreAfter(ps, cur, io) ==
    LET sel == UpdateUiFromProfile(ps,
                   update_profile_selector(ps,
                       [CurrentSelection EXCEPT !.current = cur]))
    IN [profiles |-> SaveInto(ps, sel), sel |-> sel,
        file |-> FileAfterSave(SaveInto(ps, sel), io),
        dialogs |-> SaveDialogs(io)]

StoreBecomes(after) ==
    /\ profiles' = after.profiles
    /\ current_profile_name' = after.sel.current
    /\ profile_combo' = after.sel.combo
    /\ repo_edit' = after.sel.repo_edit
    /\ api_edit' = after.sel.api_edit
    /\ fingerprint_edit' = after.sel.fingerprint_edit
    /\ config_file' = after.file
    /\ dialogs' = after.dialogs

\* what QInputDialog.getText can return as the name
NameInputs == {"", "Alpha", "Work"}

create_new_profile ==
    /\ gui = "idle"
    /\ Len(profiles) < MaxProfiles
    /\ \E name \in NameInputs, ok \in BOOLEAN, io \in IOResults :
        IF ~(ok /\ name # "")
        THEN /\ dialogs' = <<>>
             /\ UNCHANGED storeVars
        ELSE IF name \in ProfileNames
        THEN /\ dialogs' =
                    <<Warning("A profile with this name already exists")>>
             /\ UNCHANGED storeVars
        ELSE StoreBecomes(StoreAfter(Append(profiles, BackupProfile(name)),
                                     name, io))
    /\ lastOp' = "create_new_profile"
    /\ spawned' = <<>>
    /\ UNCHANGED <<tableVars, mountVars, guiVars, backupVars, restoreVars>>

\* del self.profiles[name]
WithoutProfile(ps, name) == SelectSeq(ps, LAMBDA p : p.name # name)

\* QMessageBox.warning(self, "Error", "Cannot delete the last profile")
LastProfileRefusal_Silent == <<>>

LastProfileRefusal == <<Warning("Cannot delete the last profile")>>

\* if len(self.profiles) <= 1
IsLastProfile_Never == FALSE

IsLastProfile == Len(profiles) <= 1

delete_current_profile ==
    /\ gui = "idle"
    /\ \E confirmed \in BOOLEAN, io \in IOResults :
        IF current_profile_name = None
        THEN /\ dialogs' = <<>>
             /\ UNCHANGED storeVars
        ELSE IF IsLastProfile
        THEN /\ dialogs' = LastProfileRefusal
             /\ UNCHANGED storeVars
        ELSE IF ~confirmed
        THEN /\ dialogs' = <<>>
             /\ UNCHANGED storeVars
        ELSE LET rest == WithoutProfile(profiles, current_profile_name) IN
             IF rest = <<>>
             THEN \* next(iter(self.profiles)) raises StopIteration
                  /\ profiles' = rest
                  /\ dialogs' = <<>>
                  /\ UNCHANGED <<current_profile_name, profile_combo,
                                 repo_edit, api_edit, fingerprint_edit,
                                 config_file>>
             ELSE StoreBecomes(StoreAfter(rest, rest[1].name, io))
    /\ lastOp' = "delete_current_profile"
    /\ spawned' = <<>>
    /\ UNCHANGED <<tableVars, mountVars, guiVars, backupVars, restoreVars>>

(***************************************************************************)
(* The Save Settings button, system call by system call: what another      *)
(* user of the machine can see of the file while save_settings runs.       *)
(***************************************************************************)
\* 0o644: the mode open(path, 'w') gives a new file under umask 022
Mode644 == 420

\* the modes open(path, 'w') can give a new file: 0o666 & ~umask
CreateModes == {Mode644, Mode600}

\* lines 605-621: the fields go into the current profile, the directory is
\* made, and an existing file is chmod-ed
save_settings ==
    /\ gui = "idle"
    /\ profiles' = ProfilesAfterSave(profiles, current_profile_name)
    /\ config_file' = IF config_file.exists
                      THEN [config_file EXCEPT !.mode = Mode600]
                      ELSE config_file
    /\ gui' = "save_open"
    /\ lastOp' = "save_settings"
    /\ spawned' = <<>>
    /\ dialogs' = <<>>
    /\ UNCHANGED <<current_profile_name, profile_combo, repo_edit, api_edit,
                   fingerprint_edit, tableVars, mountVars, closing,
                   backupVars, restoreVars>>

\* line 623: open(self.config_file, 'w') truncates the file or creates it,
\* or raises
SaveOpen ==
    /\ gui = "save_open"
    /\ \E io \in IOResults, mode \in CreateModes :
        IF io = "ok"
        THEN /\ config_file' =
                    WrittenFile(IF config_file.exists THEN config_file.mode
                                ELSE mode, <<>>)
             /\ gui' = "save_write"
             /\ UNCHANGED dialogs
        ELSE /\ dialogs' = SaveDialogs(io)
             /\ gui' = "idle"
             /\ UNCHANGED config_file
    /\ UNCHANGED <<profiles, current_profile_name, profile_combo, repo_edit,
                   api_edit, fingerprint_edit, tableVars, mountVars, closing,
                   lastOp, spawned, backupVars, restoreVars>>

\* line 624 and the end of the with block: the text is written and the
\* file is closed
SaveWrite ==
    /\ gui = "save_write"
    /\ config_file' = [config_file EXCEPT !.data = ConfigData(profiles)]
    /\ gui' = "save_chmod"
    /\ UNCHANGED <<profiles, current_profile_name, profile_combo, repo_edit,
                   api_edit, fingerprint_edit, tableVars, mountVars, closing,
                   obsVars, backupVars, restoreVars>>

\* lines 627-630: chmod(0o600), and the message of the button
SaveChmod ==
    /\ gui = "save_chmod"
    /\ config_file' = [config_file EXCEPT !.mode = Mode600]
    /\ dialogs' = <<Information("Settings saved successfully")>>
    /\ gui' = "idle"
    /\ UNCHANGED <<profiles, current_profile_name, profile_combo, repo_edit,
                   api_edit, fingerprint_edit, tableVars, mountVars, closing,
                   lastOp, spawned, backupVars, restoreVars>>

(***************************************************************************)
(* The profile store from its construction: the file the program finds is  *)
(* missing or one it wrote before.                                         *)
(***************************************************************************)
InitFiles ==
    {NoFile,
     WrittenFile(Mode600, ConfigData(<<ProfileWork, BackupProfile("Zeta")>>)),
     WrittenFile(Mode600, ConfigData(<<BackupProfile("Zeta"), ProfileWork>>))}

InitLoaded ==
    \E file \in InitFiles :
        /\ config_file = file
        /\ profiles = Constructed(file).profiles
        /\ current_profile_name = Constructed(file).sel.current
        /\ profile_combo = Constructed(file).sel.combo
        /\ repo_edit = Constructed(file).sel.repo_edit
        /\ api_edit = Constructed(file).sel.api_edit
        /\ fingerprint_edit = Constructed(file).sel.fingerprint_edit
        /\ dialogs = Constructed(file).dialogs
        /\ archives_table = <<>>
        /\ selected_row = 0
        /\ archive_data = <<>>
        /\ gui = "idle"
        /\ closing = FALSE
        /\ lastOp = "init"
        /\ spawned = <<>>
    /\ InitMount
    /\ InitBackup
    /\ InitRestore

NextStore ==
    \/ edit_settings
    \/ save_settings
    \/ SaveOpen
    \/ SaveWrite
    \/ SaveChmod
    \/ switch_profile
    \/ create_new_profile
    \/ delete_current_profile
    \/ remove_source

SpecStore == InitLoaded /\ [][NextStore]_vars

(***************************************************************************)
(* Construction from any file: the files the program can find, from none   *)
(* at all to hand-edited ones.                                             *)
(***************************************************************************)
MaxRecords == 2

SourceFull ==
    [path |-> PathPics, archive_type |-> "img", exclusions |-> <<"b", "a">>]

ProfileFull ==
    [name |-> "Alpha", repository |-> "u@pbs@host:other", api_key |-> "k2",
     fingerprint |-> "", backup_sources |-> <<SourceFull, SourceDocs>>,
     last_backup |-> None]

\* records as save_settings writes them
RecWork == ProfileToDict(ProfileWork)
RecZeta == ProfileToDict(BackupProfile("Zeta"))
RecFull == ProfileToDict(ProfileFull)

\* a record of a version without fingerprints, and hand-edited records: no
\* api_key, a source without archive_type, a null name
RecNoFingerprint ==
    [name |-> "Work", repository |-> "u@pbs@host:store", api_key |-> "k1",
     backup_sources |-> <<[path |-> PathDocs, archive_type |-> "pxar"]>>]
RecNoApiKey == [name |-> "Work", repository |-> "u@pbs@host:store"]
RecBadSource ==
    [name |-> "Zeta", repository |-> "", api_key |-> "", fingerprint |-> "",
     backup_sources |-> <<[path |-> PathDocs]>>]
RecNullName ==
    [name |-> None, repository |-> "u@pbs@host:store", api_key |-> "k1",
     fingerprint |-> "", backup_sources |-> <<>>]

LoadRecords ==
    {RecWork, RecZeta, RecFull, RecNoFingerprint, RecNoApiKey, RecBadSource,
     RecNullName}

RecordLists ==
    UNION {[1..n -> LoadRecords] : n \in 0..MaxRecords}

Unparsable ==
    [exists |-> TRUE, mode |-> Mode600, parses |-> FALSE, data |-> <<>>]

LegacyData == [repository |-> "u@pbs@host:store", api_key |-> "k1"]

LoadFiles ==
    {NoFile, Unparsable, WrittenFile(Mode600, <<>>),
     WrittenFile(Mode600, LegacyData)}
    \cup {WrittenFile(Mode600, [profiles |-> recs]) : recs \in RecordLists}

(***************************************************************************)
(* The catalog: refresh_archives and delete_archive.                       *)
(***************************************************************************)
MaxArchives == 2

ArchiveRecords == {ArchiveNew, ArchiveOld, ArchiveNoTime}

ListOutputs ==
    {NotJson}
    \cup {Json(l) : l \in UNION {[1..n -> ArchiveRecords] : n \in 0..MaxArchives}}

ListRuns ==
    {[run |-> LaunchError, stdout |-> NotJson],
     [run |-> Exit(1), stdout |-> NotJson]}
    \cup {[run |-> Exit(0), stdout |-> o] : o \in ListOutputs}

SnapshotListCmd(config) ==
    Proc(<<"proxmox-backup-client", "snapshot", "list",
           "--repository", config.repository, "--output-format", "json">>,
         PasswordEnv(config))

ForgetCmd(backup_id, config) ==
    Proc(<<"proxmox-backup-client", "snapshot", "forget", backup_id,
           "--repository", config.repository>>,
         PasswordEnv(config))

\* key=lambda x: x.get('backup-time', 0)
SortKey(archive) == DictGet(archive, "backup-time", 0)

\* list.sort(key, reverse=True): descending, equal keys in their old order
RECURSIVE InsertByTime(_, _)
InsertByTime(sorted, archive) ==
    IF sorted = <<>> THEN <<archive>>
    ELSE IF SortKey(Head(sorted)) >= SortKey(archive)
    THEN <<Head(sorted)>> \o InsertByTime(Tail(sorted), archive)
    ELSE <<archive>> \o sorted

RECURSIVE SortByTime(_)
SortByTime(archives) ==
    IF archives = <<>> THEN <<>>
    ELSE InsertByTime(SortByTime(SubSeq(archives, 1, Len(archives) - 1)),
                      archives[Len(archives)])

\* datetime.fromtimestamp(''): a record without backup-time raises TypeError
RowRaises(archive) == "backup-time" \notin DOMAIN archive

\* f"{backup_type}/{backup_id}/{backup_time}" with the time formatted
SnapshotPath(archive) ==
    IF archive["backup-time"] = TimeNew THEN SnapshotNew ELSE SnapshotOld

\* the rows the loop of lines 810-849 gets through
RowsDone(archives) ==
    IF \E i \in 1..Len(archives) : RowRaises(archives[i])
    THEN (CHOOSE i \in 1..Len(archives) :
             /\ RowRaises(archives[i])
             /\ \A k \in 1..(i - 1) : ~RowRaises(archives[k])) - 1
    ELSE Len(archives)

\* setRowCount(len(archives)), then setItem row by row as far as the loop
\* gets: the other rows keep their old item, new rows have none
TableAfterRows(old, archives) ==
    [i \in 1..Len(archives) |->
        IF i <= RowsDone(archives) THEN SnapshotPath(archives[i])
        ELSE IF i <= Len(old) THEN old[i]
        ELSE ""]

CatalogOut(table, data, calls, boxes) ==
    [table |-> table, data |-> data, spawned |-> calls, dialogs |-> boxes]

\* refresh_archives with the current configuration config and the catalog
\* table, data, for the way the client call goes
RefreshRunFor(config, table, data, list) ==
    LET call == Ended(SnapshotListCmd(config), list.run)
        keep(calls, boxes) == CatalogOut(table, data, calls, boxes)
        failed == <<Warning("Unexpected error when fetching archives")>>
    IN
    IF config.empty THEN keep(<<>>, failed)
    ELSE IF list.run = LaunchError THEN keep(<<call>>, failed)
    ELSE IF list.run.returncode # 0 THEN keep(<<call>>, <<>>)
    ELSE IF ~list.stdout.json THEN keep(<<call>>, failed)
    ELSE LET archives == SortByTime(list.stdout.data) IN
         CatalogOut(TableAfterRows(table, archives), archives, <<call>>,
                    IF RowsDone(archives) < Len(archives) THEN failed
                    ELSE <<>>)

RefreshRun(list) ==
    RefreshRunFor(get_current_config, archives_table, archive_data, list)

CatalogBecomes(out) ==
    /\ archives_table' = out.table
    /\ archive_data' = out.data
    /\ selected_row' = IF selected_row > Len(out.table) THEN 0
                       ELSE selected_row

\* a loaded name that is None instead of a str
HasNullName(ps) == \E i \in 1..Len(ps) : ps[i].name = None

\* setup_ui with a None name: sorted() of None and a str raises TypeError;
\* addItems([None]) raises TypeError or shows an empty text, depending on
\* the PyQt6 version; setup_ui is outside any try
NullNameOutcomes(ps) ==
    IF Len(ps) = 1 THEN {"aborted", "idle"} ELSE {"aborted"}

InitBoot ==
    /\ config_file \in LoadFiles
    /\ profiles = <<>>
    /\ current_profile_name = None
    /\ profile_combo = ""
    /\ repo_edit = ""
    /\ api_edit = ""
    /\ fingerprint_edit = ""
    /\ archives_table = <<>>
    /\ selected_row = 0
    /\ archive_data = <<>>
    /\ gui = "boot"
    /\ closing = FALSE
    /\ lastOp = "init"
    /\ spawned = <<>>
    /\ dialogs = <<>>
    /\ InitMount
    /\ InitBackup
    /\ InitRestore

\* __init__: load_config, setup_ui, and refresh_archives if setup_ui got
\* through
construct ==
    /\ gui = "boot"
    /\ IF HasNullName(load_config(config_file).profiles)
       THEN /\ profiles' = load_config(config_file).profiles
            /\ current_profile_name' = load_config(config_file).current
            /\ gui' \in NullNameOutcomes(load_config(config_file).profiles)
            /\ UNCHANGED <<profile_combo, repo_edit, api_edit,
                           fingerprint_edit>>
       ELSE /\ profiles' = Constructed(config_file).profiles
            /\ current_profile_name' = Constructed(config_file).sel.current
            /\ profile_combo' = Constructed(config_file).sel.combo
            /\ repo_edit' = Constructed(config_file).sel.repo_edit
            /\ api_edit' = Constructed(config_file).sel.api_edit
            /\ fingerprint_edit' = Constructed(config_file).sel.fingerprint_edit
            /\ gui' = "idle"
    /\ IF gui' = "idle"
       THEN \E list \in ListRuns :
              LET r == RefreshRunFor(
                           ConfigOf(profiles', current_profile_name'),
                           archives_table, archive_data, list)
              IN
              /\ CatalogBecomes(r)
              /\ spawned' = r.spawned
              /\ dialogs' = load_config(config_file).dialogs \o r.dialogs
       ELSE /\ dialogs' = load_config(config_file).dialogs
            /\ UNCHANGED <<tableVars, spawned>>
    /\ lastOp' = "construct"
    /\ UNCHANGED <<config_file, mountVars, closing, backupVars, restoreVars>>

NextLoad == construct

SpecLoad == InitBoot /\ [][NextLoad]_vars

(***************************************************************************)
(* The catalog handlers.                                                   *)
(***************************************************************************)
\* refresh_archives when the client call goes as list says
refresh_archives(list) ==
    /\ gui = "idle"
    /\ CatalogBecomes(RefreshRun(list))
    /\ spawned' = RefreshRun(list).spawned
    /\ dialogs' = RefreshRun(list).dialogs
    /\ lastOp' = "refresh_archives"
    /\ UNCHANGED <<storeVars, mountVars, guiVars, backupVars, restoreVars>>

\* selectedItems() is empty: no row is selected, or the row has no item
NoSelectedItems ==
    \/ selected_row = 0
    \/ archives_table[selected_row] = ""

\* delete_archive: the forget call, and on its success refresh_archives
delete_archive ==
    /\ gui = "idle"
    /\ \E confirmed \in BOOLEAN, forget \in RunResults, list \in ListRuns :
        LET config == get_current_config
            call == Ended(ForgetCmd(SelectedBackupId, config), forget)
            failed == <<Warning("Failed to delete archive: error")>>
        IN
        IF NoSelectedItems
        THEN /\ dialogs' = <<Warning("Please select an archive to delete")>>
             /\ spawned' = <<>>
             /\ UNCHANGED tableVars
        ELSE IF ~confirmed
        THEN /\ dialogs' = <<>>
             /\ spawned' = <<>>
             /\ UNCHANGED tableVars
        ELSE IF config.empty
        THEN /\ dialogs' = failed
             /\ spawned' = <<>>
             /\ UNCHANGED tableVars
        ELSE IF forget # Exit(0)
        THEN /\ dialogs' = failed
             /\ spawned' = <<call>>
             /\ UNCHANGED tableVars
        ELSE /\ CatalogBecomes(RefreshRun(list))
             /\ spawned' = <<call>> \o RefreshRun(list).spawned
             /\ dialogs' = <<Information("Archive deleted successfully")>>
                           \o RefreshRun(list).dialogs
    /\ lastOp' = "delete_archive"
    /\ UNCHANGED <<storeVars, mountVars, guiVars, backupVars, restoreVars>>

NextCatalog ==
    \/ SelectRow
    \/ \E list \in ListRuns : refresh_archives(list)
    \/ delete_archive

SpecCatalog == Init /\ [][NextCatalog]_vars

(***************************************************************************)
(* The backup command of a run, over profiles with every combination of    *)
(* sources: paths with and without a trailing slash and the root           *)
(* directory, both archive types, and no, one or two exclusions.           *)
(***************************************************************************)
PathRoot == <<"", "">>

ArgPaths == {PathDocs, PathPics, PathRoot}
ArgExclusions == {<<>>, <<"*.tmp">>, <<"b", "a">>}

ArgSources ==
    {[BackupSource(path, archive_type) EXCEPT !.exclusions = exclusions] :
        path \in ArgPaths, archive_type \in ArchiveTypes,
        exclusions \in ArgExclusions}

ArgProfiles ==
    {[ProfileWork EXCEPT !.backup_sources = sources] :
        sources \in UNION {[1..n -> ArgSources] : n \in 0..MaxSources}}

InitArgs ==
    /\ \E p \in ArgProfiles :
        /\ profiles = <<p>>
        /\ current_profile_name = p.name
        /\ profile_combo = p.name
        /\ repo_edit = p.repository
        /\ api_edit = p.api_key
        /\ fingerprint_edit = p.fingerprint
    /\ config_file = WrittenFile(Mode600, ConfigData(profiles))
    /\ InitTable /\ InitMount /\ InitGui /\ InitBackup /\ InitRestore

\* one run up to the command it builds and announces
NextArgs ==
    \/ (start_backup /\ NoRunYet)
    \/ \E w \in Runs : WorkerEnv(w) \/ WorkerCmd(w)
    \/ update_progress

SpecArgs == InitArgs /\ [][NextArgs]_vars

(***************************************************************************)
(* edit_exclusions, and the backup tab with the settings fields.  A line   *)
(* of the exclusions text is a sequence of tokens, " " for white space.    *)
(***************************************************************************)
ExclusionLines == {<<" ">>, <<"b">>, <<" ", "a", " ">>}

\* text_edit.toPlainText().split('\n'): at least one line
ExclusionTexts == {<<<<" ">>>>, <<<<"b">>, <<" ">>, <<" ", "a", " ">>>>}

\* if line.strip()
KeepsLine(line) == Strip(line) # <<>>

\* line.strip(), as the stored text
StrippedText(line) == Strip(line)[1]

\* [line.strip() for line in ... if line.strip()]
ExclusionsOf(lines) == MapSeq(SelectSeq(lines, KeepsLine), StrippedText)

WithExclusions(sources, row, exclusions) ==
    [sources EXCEPT ![row].exclusions = exclusions]

edit_exclusions ==
    /\ gui = "idle"
    /\ \E row \in 0..Len(get_current_config.backup_sources),
          accepted \in BOOLEAN, lines \in ExclusionTexts, io \in IOResults :
        IF row = 0
        THEN /\ dialogs' = <<Warning("Please select a source first")>>
             /\ UNCHANGED <<profiles, config_file>>
        ELSE IF ~accepted
        THEN /\ dialogs' = <<>>
             /\ UNCHANGED <<profiles, config_file>>
        ELSE LET edited == WithSources(profiles, current_profile_name,
                               WithExclusions(
                                   Profile(current_profile_name).backup_sources,
                                   row, ExclusionsOf(lines)))
                 saved == ProfilesAfterSave(edited, current_profile_name)
             IN
             /\ profiles' = saved
             /\ config_file' = FileAfterSave(saved, io)
             /\ dialogs' = SaveDialogs(io)
    /\ lastOp' = "edit_exclusions"
    /\ spawned' = <<>>
    /\ UNCHANGED <<current_profile_name, profile_combo, repo_edit, api_edit,
                   fingerprint_edit, tableVars, mountVars, guiVars,
                   backupVars, restoreVars>>

\* every write of the configuration file succeeds
DiskWorks == config_file' = WrittenFile(Mode600, ConfigData(profiles'))

\* the backup tab and the settings fields, on a disk that works
NextSources ==
    \/ edit_settings
    \/ switch_profile
    \/ (add_source /\ DiskWorks)
    \/ (remove_source /\ DiskWorks)
    \/ (edit_exclusions /\ DiskWorks)

SpecSources == Init /\ [][NextSources]_vars

(***************************************************************************)
(* The archives tab: restore and mount of files of the selected snapshot.  *)
(***************************************************************************)
NextSelect ==
    \/ SelectRow
    \/ mount_archive
    \/ unmount_current
    \/ UnmountReturn
    \/ restore_archive
    \/ RestoreReadline
    \/ RestorePoll
    \/ ClickCancel
    \/ RestoreChildWrite
    \/ RestoreChildExit
    \/ RestoreChildTerminated

SpecSelect == Init /\ [][NextSelect]_vars

(***************************************************************************)
(* Claims about the mount slot and shutdown.                               *)
(***************************************************************************)
IsMountCall(c) == c.argv[1] = "proxmox-backup-client" /\ c.argv[2] = "mount"
IsUnmountCall(c) == c.argv[1] = "fusermount"

\* C1: at most one mount is active in every reachable state, and a
\* mount_archive request made while the slot is occupied makes no subprocess
\* call and leaves the recorded mount path as it was.
C1_MountExclusive ==
    /\ [](Cardinality(liveMounts) <= 1)
    /\ [][(mount_archive /\ current_mount # None)
            => /\ spawned' = <<>>
               /\ current_mount' = current_mount
               /\ liveMounts' = liveMounts]_vars

C1_Witness ==
    /\ lastOp = "mount_archive"
    /\ current_mount \in Dirs
    /\ liveMounts = {current_mount}
    /\ spawned = <<>>
    /\ dialogs = <<Warning("An archive is already mounted")>>

\* C2: the slot goes from None to a path only in a mount_archive step whose
\* last subprocess call is the mount command for that path, ended with exit
\* code 0; a mount_archive step that ends any other way leaves the slot None.
MountCallSucceeded(calls) ==
    /\ calls # <<>>
    /\ IsMountCall(calls[Len(calls)])
    /\ calls[Len(calls)].result = Exit(0)

C2_MountOnlyOnSuccess ==
    /\ [][(current_mount = None /\ current_mount' # None)
            => /\ mount_archive
               /\ MountCallSucceeded(spawned')
               /\ spawned'[Len(spawned')].argv[5] = current_mount']_vars
    /\ [][(mount_archive /\ current_mount = None /\ ~MountCallSucceeded(spawned'))
            => current_mount' = None]_vars

C2_Witness ==
    /\ lastOp = "mount_archive"
    /\ current_mount = "/mnt/b"
    /\ MountCallSucceeded(spawned)
    /\ spawned[Len(spawned)].argv[4] = <<"home", "pxar">>

C2_WitnessFailed ==
    /\ lastOp = "mount_archive"
    /\ current_mount = None
    /\ spawned # <<>>
    /\ IsMountCall(spawned[Len(spawned)])
    /\ spawned[Len(spawned)].result = Exit(1)

\* C3: when fusermount returns to unmount_current in state Mounted(p), the
\* slot becomes None only if the call ended with exit code 0; after a
\* non-zero exit or a failed launch the slot still holds p.
C3_FailedUnmountKeepsMount ==
    [][UnmountReturn
        => /\ (current_mount' = None) <=> (spawned'[1].result = Exit(0))
           /\ (spawned'[1].result # Exit(0)) => current_mount' = current_mount
           /\ current_mount # None]_vars

C3_Witness ==
    /\ lastOp = "unmount_current"
    /\ gui = "idle"
    /\ current_mount \in Dirs
    /\ Len(spawned) = 1
    /\ IsUnmountCall(spawned[1])
    /\ spawned[1].result \in {Exit(1), LaunchError}

\* C4: unmount_current with the slot None reports that nothing is mounted,
\* makes no subprocess call and leaves the slot None.
C4_UnmountWhenUnmounted ==
    [][(unmount_current /\ current_mount = None)
        => /\ spawned' = <<>>
           /\ dialogs' = <<Information("No archive is currently mounted")>>
           /\ current_mount' = None
           /\ liveMounts' = liveMounts
           /\ gui' = "idle"]_vars

C4_Witness ==
    /\ lastOp = "unmount_current"
    /\ current_mount = None
    /\ spawned = <<>>
    /\ dialogs = <<Information("No archive is currently mounted")>>

\* C5: closeEvent with the slot at p calls fusermount -u p, once, and accepts
\* the close when that call has ended, however it ended; closeEvent with the
\* slot None makes no subprocess call; the close is always accepted in the
\* end.
C5_ShutdownUnmounts ==
    /\ [][closeEvent
            => IF current_mount # None
               THEN /\ spawned' = <<UnmountCmd(current_mount)>>
                    /\ gui' = "unmount_run"
               ELSE /\ spawned' = <<>>
                    /\ gui' = "closed"]_vars
    /\ [][(closing /\ gui = "unmount_run")
            => /\ gui' = "closed"
               /\ Len(spawned') = 1
               /\ spawned'[1].argv = spawned[1].argv]_vars
    /\ [](gui = "closed" => closing)
    /\ (closing ~> gui = "closed")

C5_Witness ==
    /\ gui = "closed"
    /\ lastOp = "closeEvent"
    /\ current_mount \in Dirs
    /\ Len(spawned) = 1
    /\ spawned[1] = Ended(UnmountCmd(current_mount), LaunchError)

(***************************************************************************)
(* Claims about streaming runs.                                            *)
(***************************************************************************)
Launched(w) == children[w].state # "none"

Texts(msgs) == [i \in 1..Len(msgs) |-> msgs[i].text]

\* t is line without the spaces at its two ends
IsTrimOf(t, line) ==
    \E i \in 1..(Len(line) + 1) :
        /\ \A k \in 1..(i - 1) : line[k] = " "
        /\ \A k \in (i + Len(t))..Len(line) : line[k] = " "
        /\ i + Len(t) - 1 <= Len(line)
        /\ t = SubSeq(line, i, i + Len(t) - 1)
        /\ t # <<>> => (t[1] # " " /\ t[Len(t)] # " ")

\* C6: every backup run whose child was started gets a terminal result
\* delivered to the consumer, after the lines the child wrote.
C6_EveryRunGetsResult ==
    \A w \in Runs : Launched(w) ~> (terminal[w] # <<>>)

\* C6, the lines: when the terminal result of a run has been delivered, what
\* the consumer received before it is the lines the child wrote, each once
\* and in the order written.
C6_DeliversChildLines ==
    \A w \in Runs :
        (terminal[w] # <<>> /\ Launched(w))
            => Texts(delivered[w]) = children[w].written

\* What does hold of a run's deliveries: first the runner's own "Running
\* command" line for the command it starts, then each line the child wrote,
\* without the spaces at its ends, once and in the order written; at most
\* one terminal result, after which nothing more of the run is delivered;
\* the result is a success exactly if the exit code is 0 and a failure
\* carries the text read from standard error.
DeliveredInOrder(w) ==
    /\ Len(delivered[w]) <= 1 + Len(children[w].written)
    /\ \A i \in 1..Len(delivered[w]) :
        IF i = 1
        THEN delivered[w][i] = RunningCommand(workers[w].cmd)
        ELSE /\ delivered[w][i].cmd = <<>>
             /\ IsTrimOf(delivered[w][i].text, children[w].written[i - 1])

TerminalResult(w) ==
    terminal[w] # <<>> =>
        /\ Len(terminal[w]) = 1
        /\ workers[w].pc = "done"
        /\ Launched(w) =>
            /\ children[w].state = "exited"
            /\ Len(delivered[w]) = 1 + Len(children[w].written)
            /\ terminal[w][1].success <=> (children[w].code = 0)
            /\ ~terminal[w][1].success =>
                   terminal[w][1].stderr = children[w].err_written
        /\ ~Launched(w) => ~terminal[w][1].success

DeliverySafety ==
    /\ [](\A w \in Runs : DeliveredInOrder(w) /\ TerminalResult(w))
    /\ [][\A w \in Runs :
            terminal[w] # <<>>
                => (delivered'[w] = delivered[w] /\ terminal'[w] = terminal[w])
         ]_vars
    /\ \A w \in Runs :
        (children[w].state = "exited") ~> (terminal[w] # <<>>)

\* C7: a streaming run whose consumer has asked for cancellation ends as
\* cancelled, never with a success or failure result.  (Stated of restore,
\* the one streaming operation that has a cancel control.)
CancelRequested == restore.clicked \/ restore.canceled

C7_CancelledOutcome ==
    (restore.outcome # "none" /\ CancelRequested)
        => restore.outcome = "cancelled"

\* C8: a cancelled restore does not return before its child has exited.
C8_ReturnsAfterChildExit ==
    restore.outcome = "cancelled" => restore.child = "exited"

\* C8, the liveness half: once Cancel is clicked the child is sent a
\* termination signal and the restore returns.
C8_CancelEventuallyReturns ==
    restore.clicked ~> (restore.sigterm /\ gui = "idle")

\* C9: at most one backup child is alive at any time.
AliveChildren == {w \in Runs : children[w].state \in {"running", "blocked"}}

C9_OneBackupChild == Cardinality(AliveChildren) <= 1

\* C10: start_backup on an incomplete profile starts no worker, and the
\* command line and environment of every backup child that is started come
\* from a complete profile: at least one source, a repository, an API key.
BuiltFromCompleteProfile(w) ==
    /\ Len(workers[w].cmd) > 4
    /\ workers[w].cmd[Len(workers[w].cmd)] # ""
    /\ <<"PBS_PASSWORD", "">> \notin workers[w].env

C10_ValidationPrecedesSpawn ==
    /\ [][(start_backup /\ ~validate_config) => workers' = workers]_vars
    /\ [](\A w \in Runs : Launched(w) => BuiltFromCompleteProfile(w))

(***************************************************************************)
(* Claims about the client's environment and the configuration file.       *)
(***************************************************************************)
IsClientCall(c) == c.argv[1] = "proxmox-backup-client"

HasCredentialOverlay(env, config) ==
    /\ <<"PBS_PASSWORD", config.api_key>> \in env
    /\ \A e \in env : e[1] = "PBS_PASSWORD" => e[2] = config.api_key
    /\ (config.fingerprint # "")
           <=> (<<"PBS_FINGERPRINT", config.fingerprint>> \in env)
    /\ \A e \in env : e[1] = "PBS_FINGERPRINT" => e[2] = config.fingerprint

\* C11: every call of the backup client made for the current profile runs
\* with PBS_PASSWORD set to the profile's API key and with PBS_FINGERPRINT
\* set to the profile's fingerprint exactly if the fingerprint is not empty.
C11_CredentialEnv ==
    \A i \in 1..Len(spawned) :
        IsClientCall(spawned[i])
            => HasCredentialOverlay(spawned[i].env, get_current_config)

OwnerOnly(mode) == mode % 64 = 0

HoldsCredentials(file) ==
    /\ "profiles" \in DOMAIN file.data
    /\ \E i \in 1..Len(file.data.profiles) :
          file.data.profiles[i].api_key # ""

\* C12: whenever the configuration file exists and holds an API key, its
\* permission bits give access to the owner only.
C12_ConfigFileOwnerOnly ==
    (config_file.exists /\ HoldsCredentials(config_file))
        => OwnerOnly(config_file.mode)

(***************************************************************************)
(* Claims about the profile store.                                         *)
(***************************************************************************)
\* C13: in every state reached from construction by switching, creating and
\* deleting profiles, editing and saving settings and removing sources, the
\* store holds at least one profile and current_profile_name is the name of
\* a profile of the store.
C13_StoreInvariant ==
    /\ Len(profiles) >= 1
    /\ current_profile_name \in ProfileNames

C13_Witness ==
    /\ lastOp = "delete_current_profile"
    /\ Len(profiles) = 1
    /\ ProfileNames = {"Alpha"}
    /\ current_profile_name = "Alpha"

\* C14: delete_current_profile on a store with one profile is refused with
\* the warning "Cannot delete the last profile" and changes nothing: not
\* the profiles, not the current profile, not the settings fields, not the
\* file.
C14_LastProfileKept ==
    [][(delete_current_profile /\ Len(profiles) = 1)
          => /\ dialogs' = <<Warning("Cannot delete the last profile")>>
             /\ UNCHANGED storeVars
      ]_vars

C14_Witness ==
    /\ lastOp = "delete_current_profile"
    /\ dialogs = <<Warning("Cannot delete the last profile")>>
    /\ Len(profiles) = 1
    /\ config_file.exists

\* C15: a confirmed delete_current_profile on a store with more than one
\* profile removes the current profile and no other, leaves every other
\* profile as it was, and makes current the remaining profile whose name is
\* first in sorted order: a function of the remaining profiles alone.
DeletedOne ==
    /\ delete_current_profile
    /\ Len(profiles) > 1
    /\ profiles' # profiles

C15_DeleteCurrent ==
    [][DeletedOne
          => /\ NamesOf(profiles') = ProfileNames \ {current_profile_name}
             /\ Len(profiles') = Len(profiles) - 1
             /\ \A i \in 1..Len(profiles) :
                   profiles[i].name # current_profile_name
                       => \E j \in 1..Len(profiles') :
                             profiles'[j] = profiles[i]
             /\ current_profile_name' \in NamesOf(profiles')
             /\ \A n \in NamesOf(profiles') :
                   NameRank(current_profile_name') <= NameRank(n)
      ]_vars

C15_Witness ==
    /\ lastOp = "delete_current_profile"
    /\ MapSeq(profiles, LAMBDA p : p.name) = <<"Zeta", "Alpha">>
    /\ current_profile_name = "Alpha"

(***************************************************************************)
(* Claims about loading and saving.                                        *)
(***************************************************************************)
MissingKeys(rec) ==
    \/ ~({"name", "repository", "api_key"} \subseteq DOMAIN rec)
    \/ /\ "backup_sources" \in DOMAIN rec
       /\ \E i \in 1..Len(rec.backup_sources) :
             ~({"path", "archive_type"} \subseteq DOMAIN rec.backup_sources[i])

NullName(rec) == "name" \in DOMAIN rec /\ rec.name = None

HasRecord(file, Bad(_)) ==
    /\ file.exists
    /\ file.parses
    /\ "profiles" \in DOMAIN file.data
    /\ \E i \in 1..Len(file.data.profiles) : Bad(file.data.profiles[i])

EmptyProfileList(file) ==
    /\ file.exists
    /\ file.parses
    /\ "profiles" \in DOMAIN file.data
    /\ file.data.profiles = <<>>

LoadedDefault ==
    /\ gui' = "idle"
    /\ profiles' = <<BackupProfile("Default")>>
    /\ current_profile_name' = "Default"

\* C16: when the file is missing, is not YAML, holds a malformed profile
\* record or an empty profile list, construction does not abort and gives
\* the store of one empty profile "Default", which is current.
C16_LoadFailsSoft ==
    [][(/\ construct
        /\ \/ ~config_file.exists
           \/ ~config_file.parses
           \/ EmptyProfileList(config_file)
           \/ HasRecord(config_file, MissingKeys)
           \/ HasRecord(config_file, NullName))
          => LoadedDefault
      ]_vars

\* C16 for the files other than those with a null name: it holds
LoadFailsSoftOnMissingKeys ==
    [][(/\ construct
        /\ \/ ~config_file.exists
           \/ ~config_file.parses
           \/ EmptyProfileList(config_file)
           \/ HasRecord(config_file, MissingKeys))
          => LoadedDefault
      ]_vars

\* a file as save_settings writes it for a store of uniquely named profiles
IsSavedStore(file) ==
    /\ file.exists
    /\ file.parses
    /\ "profiles" \in DOMAIN file.data
    /\ file.data.profiles # <<>>
    /\ \A i \in 1..Len(file.data.profiles) :
        LET rec == file.data.profiles[i] IN
        /\ DOMAIN rec = {"name", "repository", "api_key", "fingerprint",
                         "backup_sources"}
        /\ rec.name # None
        /\ \A k \in 1..Len(rec.backup_sources) :
              DOMAIN rec.backup_sources[k]
                  = {"path", "archive_type", "exclusions"}
        /\ \A j \in 1..Len(file.data.profiles) :
              file.data.profiles[j].name = rec.name => j = i

\* what save_settings writes in the state it is called in
SavedNow ==
    FileAfterSave(ProfilesAfterSave(profiles, current_profile_name), "ok")

\* C17: a file that save_settings wrote for a store, loaded and saved again,
\* has the same content: the same profiles in the same order, each with its
\* fields, its sources in order and their exclusions in order.
C17_RoundTrip ==
    [][(construct /\ IsSavedStore(config_file))
          => SavedNow'.data = config_file.data
      ]_vars

C17_Witness ==
    /\ lastOp = "construct"
    /\ config_file.data = [profiles |-> <<RecWork, RecFull>>]
    /\ profiles = <<ProfileWork, ProfileFull>>
    /\ current_profile_name = "Alpha"
    /\ SavedNow.data = config_file.data

\* C18: a refresh that fails for any reason (the client cannot be launched,
\* exits non-zero, prints something that is not JSON, or prints a record
\* that cannot be processed) leaves the displayed catalog, its row count,
\* every row and the stored archive data, exactly as it was.
RefreshFails(list) ==
    \/ list.run # Exit(0)
    \/ ~list.stdout.json
    \/ \E i \in 1..Len(list.stdout.data) : RowRaises(list.stdout.data[i])

C18_FailedRefreshKeepsCatalog ==
    [][\A list \in ListRuns :
          (refresh_archives(list) /\ RefreshFails(list))
          => UNCHANGED <<archives_table, archive_data>>]_vars

\* the part of C18 that the code keeps: a refresh whose client call fails,
\* or whose output is not JSON, leaves the catalog as it was
RefreshKeepsCatalogOnCallFailure ==
    [][\A list \in ListRuns :
          (refresh_archives(list) /\ (list.run # Exit(0) \/ ~list.stdout.json))
          => UNCHANGED <<archives_table, archive_data>>]_vars

\* C19: no error is silently dropped: whenever a handler's client call ends
\* with a non-zero exit code, the handler shows the user an error.
ExitedNonZero(call) ==
    /\ call.result.kind = "exit"
    /\ call.result.returncode # 0

ShowsError(boxes) ==
    \E i \in 1..Len(boxes) : boxes[i].level = "warning"

C19_NonZeroExitIsShown ==
    [][(\E i \in 1..Len(spawned') : ExitedNonZero(spawned'[i]))
       => ShowsError(dialogs')]_vars

\* the part of C19 that the code keeps in the catalog handlers: a forget
\* call that exits non-zero is reported with its error text
ForgetFailureIsShown ==
    [][(/\ lastOp' = "delete_archive"
        /\ spawned' # <<>>
        /\ ExitedNonZero(spawned'[1]))
       => dialogs' = <<Warning("Failed to delete archive: error")>>]_vars

\* C20: the backup command is the tool name and subcommand, then for each
\* source in order one argument "{baseName(path)}.{archiveType}:{path}"
\* followed at once by one "--exclude={pattern}" per exclusion of that
\* source in stored order, and it ends with "--repository" and the
\* profile's repository.
RECURSIVE ArgsBefore(_, _)
ArgsBefore(sources, k) ==
    IF k = 1 THEN 0
    ELSE ArgsBefore(sources, k - 1) + 1 + Len(sources[k - 1].exclusions)

\* the final component of a path once its trailing separators are dropped
FinalComponent(path) ==
    IF \A i \in 1..Len(path) : path[i] = "" THEN ""
    ELSE path[CHOOSE i \in 1..Len(path) :
                 /\ path[i] # ""
                 /\ \A j \in (i + 1)..Len(path) : path[j] = ""]

IsBackupArgs(cmd, profile) ==
    LET sources == profile.backup_sources
        at(k) == 3 + ArgsBefore(sources, k)
    IN
    /\ Len(cmd) = at(Len(sources) + 1) + 1
    /\ cmd[1] = "proxmox-backup-client"
    /\ cmd[2] = "backup"
    /\ \A k \in 1..Len(sources) :
        /\ cmd[at(k)] = [dir_name |-> FinalComponent(sources[k].path),
                         archive_type |-> sources[k].archive_type,
                         path |-> sources[k].path]
        /\ \A e \in 1..Len(sources[k].exclusions) :
              cmd[at(k) + e] = [exclude |-> sources[k].exclusions[e]]
    /\ cmd[Len(cmd) - 1] = "--repository"
    /\ cmd[Len(cmd)] = profile.repository

C20_BackupArgs ==
    \A w \in Runs :
        workers[w].cmd # <<>>
        => IsBackupArgs(workers[w].cmd, Profile(current_profile_name))

\* a command built for two sources that both have exclusions, the first
\* with two of them and a path that ends in a slash
C20_Witness ==
    /\ workers[1].pc = "popen"
    /\ Len(Profile(current_profile_name).backup_sources) = 2
    /\ Profile(current_profile_name).backup_sources[1].path = PathPics
    /\ Profile(current_profile_name).backup_sources[1].exclusions = <<"b", "a">>
    /\ Profile(current_profile_name).backup_sources[2].exclusions = <<"*.tmp">>
    /\ workers[1].cmd[4] = [exclude |-> "b"]
    /\ workers[1].cmd[6].dir_name = Basename(RStripSlash(
           Profile(current_profile_name).backup_sources[2].path))

\* C21 (as stated): in restore and mount the candidates are the listed file
\* names ending in ".pxar.didx" without their ".didx", in listing order;
\* with no candidate the handler warns and spawns no restore or mount; with
\* several the caller chooses and without a selection the first candidate
\* is used; the file passed to the command is a candidate.
HasPxarDidxSuffix(fn) ==
    /\ Len(fn) > 2
    /\ SubSeq(fn, Len(fn) - 1, Len(fn)) = <<"pxar", "didx">>

\* c lists, in the order of data, the names with the suffix, less ".didx"
IsCandidateList(c, data) ==
    \E at \in [1..Len(c) -> 1..Len(data)] :
        /\ \A j, k \in 1..Len(c) : j < k => at[j] < at[k]
        /\ {at[k] : k \in 1..Len(c)}
           = {i \in 1..Len(data) : HasPxarDidxSuffix(data[i].filename)}
        /\ \A k \in 1..Len(c) : c[k] \o <<"didx">> = data[at[k]].filename

\* the snapshot-files call gave a listing whose records all have a name
Listed(files) ==
    /\ files.run = Exit(0)
    /\ files.stdout.json
    /\ \A i \in 1..Len(files.stdout.data) : files.stdout.data[i].has_filename

\* the handler gets as far as the listing
ReachesListing ==
    /\ gui = "idle"
    /\ SelectedBackupId # None
    /\ ~get_current_config.empty

MountStepWith(dir, files, choice, m) ==
    /\ ReachesListing
    /\ current_mount = None
    /\ lastOp' = "mount_archive"
    /\ spawned' = MountArchiveRun(SelectedBackupId, dir, files, choice, m).spawned
    /\ dialogs' = MountArchiveRun(SelectedBackupId, dir, files, choice, m).dialogs

RestoreStepWith(dir, files, choice, launch) ==
    /\ ReachesListing
    /\ lastOp' = "restore_archive"
    /\ spawned' = RestoreArchiveRun(SelectedBackupId, dir, files, choice,
                                    launch).spawned
    /\ dialogs' = RestoreArchiveRun(SelectedBackupId, dir, files, choice,
                                    launch).dialogs

\* a restore or mount step on the listing files with the answer choice
SelectionStep(files, choice) ==
    \E dir \in Dirs :
        \/ \E m \in RunResults : MountStepWith(dir, files, choice, m)
        \/ \E launch \in {LaunchError, Running} :
              RestoreStepWith(dir, files, choice, launch)

NoArchiveFiles == <<Warning("No .pxar.didx files found in backup")>>

\* the file argument of the restore or mount call
FilePassed(calls) == calls[2].argv[4]

NoneSpawned(calls) == Len(calls) = 1

SpawnedWith(calls, file, c) ==
    /\ Len(calls) = 2
    /\ calls[2].argv[2] \in {"mount", "restore"}
    /\ FilePassed(calls) = file
    /\ \E k \in 1..Len(c) : c[k] = FilePassed(calls)

C21_FirstCandidateWithoutSelection ==
    [][\A files \in FilesRuns : \A choice \in ChoicesFor(files) :
          (SelectionStep(files, choice) /\ Listed(files))
          => LET c == PxarFiles(files.stdout.data) IN
                /\ IsCandidateList(c, files.stdout.data)
                /\ IF c = <<>>
                   THEN dialogs' = NoArchiveFiles /\ NoneSpawned(spawned')
                   ELSE SpawnedWith(spawned',
                            IF Len(c) > 1 /\ choice.ok THEN choice.item
                            ELSE c[1],
                            c)
      ]_vars

\* C21 (amended): as stated, except that with several candidates a caller
\* who dismisses the choice ends the operation: no restore or mount is
\* spawned and nothing is shown; a single candidate is used without asking.
C21_FileSelection ==
    [][\A files \in FilesRuns : \A choice \in ChoicesFor(files) :
          (SelectionStep(files, choice) /\ Listed(files))
          => LET c == PxarFiles(files.stdout.data) IN
                /\ IsCandidateList(c, files.stdout.data)
                /\ IF c = <<>>
                   THEN dialogs' = NoArchiveFiles /\ NoneSpawned(spawned')
                   ELSE IF Len(c) > 1 /\ ~choice.ok
                   THEN dialogs' = <<>> /\ NoneSpawned(spawned')
                   ELSE SpawnedWith(spawned',
                            IF Len(c) > 1 THEN choice.item ELSE c[1], c)
      ]_vars

\* a restore runs on the first of the two candidates of a listing that
\* also holds a file of another kind
C21_Witness ==
    /\ lastOp = "restore_archive"
    /\ gui = "restore_readline"
    /\ Len(spawned) = 2
    /\ spawned[1].result = Exit(0)
    /\ FilePassed(spawned) = <<"home", "pxar">>

\* C22: add_source, remove_source and edit_exclusions change only the source
\* list of the current profile: its repository, api_key and fingerprint and
\* every other profile stay as they were, also when the settings fields
\* hold text that was not saved.
SettingsOf(p) == <<p.name, p.repository, p.api_key, p.fingerprint>>

SourceEditFrame ==
    /\ Len(profiles') = Len(profiles)
    /\ \A i \in 1..Len(profiles) :
        /\ SettingsOf(profiles'[i]) = SettingsOf(profiles[i])
        /\ profiles[i].name # current_profile_name
           => profiles'[i] = profiles[i]

C22_SourceEditFrame ==
    [][(add_source \/ remove_source \/ edit_exclusions) => SourceEditFrame]_vars

\* the settings fields hold what the current profile holds
SettingsFieldsSaved ==
    /\ repo_edit = get_current_config.repository
    /\ api_edit = get_current_config.api_key
    /\ fingerprint_edit = get_current_config.fingerprint

\* C22 without unsaved text in the settings fields: it holds
SourceEditFrameWhenSaved ==
    [][((add_source \/ remove_source \/ edit_exclusions)
        /\ SettingsFieldsSaved) => SourceEditFrame]_vars

\* C23: in every backup run the environment and the argument vector passed
\* to the child are both taken from the profile as it was, current and
\* validated, when start_backup accepted the run, whatever the user does to
\* the store while the worker thread runs.
FromAcceptedProfile(w) ==
    /\ workers[w].env = BackupEnv(workers[w].accepted)
    /\ workers[w].cmd = get_backup_command(workers[w].accepted)

C23_OneProfilePerRun ==
    \A w \in Runs : Launched(w) => FromAcceptedProfile(w)

\* a child whose credentials are those of one profile and whose repository
\* is that of another
MixedRun ==
    \E w \in Runs :
        /\ Launched(w)
        /\ workers[w].env = BackupEnv(ConfigOf(profiles, "Work"))
        /\ workers[w].cmd[Len(workers[w].cmd)]
               = ConfigOf(profiles, "Zeta").repository

\* env and cmd of a run are never from two profiles
NoMixedRun == ~MixedRun

\* C24: after create_new_profile succeeds with a non-empty name that is not
\* in the store, the store holds an empty profile of that name, that
\* profile is the current one, and every profile that was there before is
\* unchanged.
Created(name) ==
    /\ create_new_profile
    /\ name # ""
    /\ name \notin ProfileNames
    /\ \E i \in 1..Len(profiles') : profiles'[i].name = name

HoldsNewProfile(name) ==
    /\ Len(profiles') = Len(profiles) + 1
    /\ \E i \in 1..Len(profiles') : profiles'[i] = BackupProfile(name)
    /\ \A i \in 1..Len(profiles) :
          \E k \in 1..Len(profiles') : profiles'[k] = profiles[i]

C24_NewProfileIsCurrent ==
    [][\A name \in NameInputs :
          Created(name)
          => HoldsNewProfile(name) /\ current_profile_name' = name]_vars

\* C24 without the claim that the new profile is current: it holds
NewProfileIsAdded ==
    [][\A name \in NameInputs : Created(name) => HoldsNewProfile(name)]_vars

\* what the code does instead: the profile that was current stays current
NewProfileLeavesCurrent ==
    [][\A name \in NameInputs :
          Created(name) => current_profile_name' = current_profile_name]_vars

====
